---- MODULE Spec2Model ----
(***************************************************************************)
(* Model of the hookwise (captain-hook) decision cascade:                  *)
(*   src/src/cascade/mod.rs          CascadeRunner                         *)
(*   src/src/cascade/path_policy.rs  PathPolicyEngine (tier 0)             *)
(*   src/src/cascade/supervisor.rs   SupervisorTier (tier 4)               *)
(*   src/src/cascade/human.rs        DecisionQueue, HumanTier (tier 5)     *)
(* The exact cache, the token-Jaccard index, the embedding index, the      *)
(* sanitizer and the JSONL store are modelled from their description.      *)
(*                                                                         *)
(* Strings are modelled as sequences of atoms: a path is the sequence of   *)
(* its components (an absolute path starts with the component "/"), a      *)
(* serialized tool input is the sequence of its field names and values.    *)
(***************************************************************************)
EXTENDS Integers, Sequences, FiniteSets, TLC

\* ------------------------------------------------------------------------
\* Bounds
\* ------------------------------------------------------------------------
\* Number of tool calls one runner evaluates in a behaviour.
MaxCalls == 2
\* Number of 200 ms sleeps after which the human deadline has passed.
MaxWait == 1
\* Number of milliseconds of the clock the ids of the human tier are taken from.
MaxMillis == 2

\* ------------------------------------------------------------------------
\* Option values: None is the empty sequence, Some(x) the one-element one.
\* ------------------------------------------------------------------------
None == <<>>
Some(x) == <<x>>
IsSome(o) == o # <<>>
Unwrap(o) == o[1]

RECURSIVE Flatten(_)
Flatten(ss) == IF ss = <<>> THEN <<>> ELSE Head(ss) \o Flatten(Tail(ss))

Range(s) == {s[i] : i \in DOMAIN s}

\* ------------------------------------------------------------------------
\* Decisions, tiers, scopes
\* ------------------------------------------------------------------------
Decisions == {"allow", "ask", "deny"}

\* Decision::precedence: restrictiveness, allow < ask < deny.
precedence(d) == CASE d = "allow" -> 0 [] d = "ask" -> 1 [] d = "deny" -> 2

\* Variant of TierOrder: the exact cache is consulted before the path policy.
TierOrderCacheFirst == <<"ExactCache", "PathPolicy", "TokenJaccard",
                         "EmbeddingSimilarity", "Supervisor", "Human">>

\* Variant of TierOrder: the token tier is consulted before the exact cache.
TierOrderTokenFirst == <<"PathPolicy", "TokenJaccard", "ExactCache",
                         "EmbeddingSimilarity", "Supervisor", "Human">>

\* The tiers vector of evaluate_with_cwd.
TierOrder == <<"PathPolicy", "ExactCache", "TokenJaccard",
               "EmbeddingSimilarity", "Supervisor", "Human">>

\* ------------------------------------------------------------------------
\* Paths and globs
\* ------------------------------------------------------------------------
SecretA == "ghp_secretA"
SecretB == "ghp_secretB"
Secrets == {SecretA, SecretB}
Redacted == "<REDACTED>"

CwdHome == <<"/", "home", "u">>
SrcMain == <<"src", "main.rs">>
AbsSrcMain == CwdHome \o SrcMain
TestsUnit == <<"tests", "unit.rs">>
EnvLocal == <<".env.local">>
Readme == <<"README.md">>
DevNull == <<"/", "dev", "null">>

\* Every path of the model, in the byte order of its string form
\* ('.' < '/' < 'R' < 's' < 't'), which is the order Vec::sort gives.
PathsSorted == <<EnvLocal, DevNull, AbsSrcMain, Readme, SrcMain, TestsUnit>>

\* Pairs <<prefix, component>> with component.starts_with(prefix).
StrPrefix == {<<".env", ".env.local">>, <<".env", ".env">>}

\* Globs: "**", a literal path, "dir/**", and "prefix*".
GlobAll == [kind |-> "all", base |-> <<>>]
GlobLit(p) == [kind |-> "lit", base |-> p]
GlobDir(p) == [kind |-> "dir", base |-> p]
GlobPre(s) == [kind |-> "pre", base |-> <<s>>]

\* globset::Glob matching of one pattern ('*' and '**' cross separators,
\* "dir/**" matches the entries below dir but not dir itself).
GlobMatch(g, path) ==
  CASE g.kind = "all" -> TRUE
    [] g.kind = "lit" -> path = g.base
    [] g.kind = "dir" -> /\ Len(path) > Len(g.base)
                         /\ SubSeq(path, 1, Len(g.base)) = g.base
    [] g.kind = "pre" -> /\ Len(path) >= 1
                         /\ <<g.base[1], path[1]>> \in StrPrefix

\* GlobSet::is_match: some pattern of the set matches.
is_match(globset, path) == \E g \in globset : GlobMatch(g, path)

\* CompiledPathPolicy of the integration tests' make_session.
CoderPolicy ==
  [allow_write |-> {GlobDir(<<"src">>), GlobLit(<<"Cargo.toml">>)},
   deny_write |-> {GlobDir(<<"tests">>), GlobDir(<<"docs">>)},
   allow_read |-> {GlobAll},
   sensitive_ask_write |-> {GlobDir(<<".claude">>), GlobPre(".env")}]

\* CompiledPathPolicy of cascade_deny_wins_over_ask.
CustomPolicy ==
  [allow_write |-> {GlobAll},
   deny_write |-> {GlobPre(".env")},
   allow_read |-> {GlobAll},
   sensitive_ask_write |-> {GlobPre(".env")}]

\* SessionContext: role (name) and compiled path policy, both optional.
CoderSession == [role |-> Some("coder"), path_policy |-> Some(CoderPolicy)]
CustomSession == [role |-> Some("custom"), path_policy |-> Some(CustomPolicy)]
NoRoleSession == [role |-> None, path_policy |-> None]

\* session.role.map(|r| r.name).unwrap_or("*")
role_name(session) == IF IsSome(session.role) THEN Unwrap(session.role) ELSE "*"

\* ------------------------------------------------------------------------
\* Tool inputs
\* ------------------------------------------------------------------------
\* A tool input is a JSON object with optional fields.  A Bash command is a
\* sequence of clauses [verb, args, redirect]; each argument is a path.
NoFields == [command |-> None, content |-> None, file_path |-> None,
             notebook_path |-> None, path |-> None]

FileInput(p, c) == [NoFields EXCEPT !.file_path = Some(p), !.content = Some(c)]
NotebookInput(p) == [NoFields EXCEPT !.notebook_path = Some(p)]
BashInput(cmd) == [NoFields EXCEPT !.command = Some(cmd)]

Clause(v, a, r) == [verb |-> v, args |-> a, redirect |-> r]

\* serde_json::to_string of a command: its words in order.
ClauseAtoms(c) ==
  <<c.verb>> \o Flatten(c.args)
  \o (IF IsSome(c.redirect) THEN <<">">> \o Unwrap(c.redirect) ELSE <<>>)

RECURSIVE CommandAtoms(_)
CommandAtoms(cmd) ==
  IF cmd = <<>> THEN <<>> ELSE ClauseAtoms(Head(cmd)) \o CommandAtoms(Tail(cmd))

\* serde_json::to_string(tool_input): field names (sorted) and values.
to_string(ti) ==
     (IF IsSome(ti.command) THEN <<"command">> \o CommandAtoms(Unwrap(ti.command)) ELSE <<>>)
  \o (IF IsSome(ti.content) THEN <<"content", Unwrap(ti.content)>> ELSE <<>>)
  \o (IF IsSome(ti.file_path) THEN <<"file_path">> \o Unwrap(ti.file_path) ELSE <<>>)
  \o (IF IsSome(ti.notebook_path) THEN <<"notebook_path">> \o Unwrap(ti.notebook_path) ELSE <<>>)
  \o (IF IsSome(ti.path) THEN <<"path">> \o Unwrap(ti.path) ELSE <<>>)

\* Volatile fields (a timestamp, a pid) and whitespace runs of a raw string.
Volatile == {"2026-01-01T00:00:00Z", "pid=4242"}
Blank == " "
WideBlank == "   "

\* Rule 1: every recognised secret becomes <REDACTED>.
RedactSecrets(raw) ==
  [i \in DOMAIN raw |-> IF raw[i] \in Secrets THEN Redacted ELSE raw[i]]

\* Rule 2: every timestamp and pid becomes <REDACTED>.
RedactVolatile(raw) ==
  [i \in DOMAIN raw |-> IF raw[i] \in Volatile THEN Redacted ELSE raw[i]]

\* Variant of NormaliseWhitespace: one pass that merges blanks two by two.
RECURSIVE NormaliseWhitespacePairs(_)
NormaliseWhitespacePairs(raw) ==
  IF raw = <<>> THEN <<>>
  ELSE LET h == IF raw[1] = WideBlank THEN Blank ELSE raw[1]
       IN IF h = Blank /\ Len(raw) >= 2 /\ raw[2] \in {Blank, WideBlank}
          THEN <<Blank>> \o NormaliseWhitespacePairs(SubSeq(raw, 3, Len(raw)))
          ELSE <<h>> \o NormaliseWhitespacePairs(Tail(raw))

\* Rule 3: every run of whitespace becomes one blank.
RECURSIVE NormaliseWhitespace(_)
NormaliseWhitespace(raw) ==
  IF raw = <<>> THEN <<>>
  ELSE LET h == IF raw[1] = WideBlank THEN Blank ELSE raw[1]
           rest == NormaliseWhitespace(Tail(raw))
       IN IF h = Blank /\ rest # <<>> /\ rest[1] = Blank
          THEN rest
          ELSE <<h>> \o rest

\* SanitizePipeline::sanitize: the rules applied in order.
sanitize(raw) == NormaliseWhitespace(RedactVolatile(RedactSecrets(raw)))

\* CascadeRunner::extract_file_path
extract_file_path(tool_name, ti) ==
  CASE tool_name \in {"Write", "Edit", "Read"} -> ti.file_path
    [] tool_name \in {"Glob", "Grep"} -> ti.path
    [] tool_name = "Bash" -> None
    [] tool_name = "NotebookEdit" -> ti.notebook_path
    [] OTHER -> None

\* The CascadeInput built by CascadeRunner::evaluate_with_cwd.
CascadeInput(session, tool_name, ti, cwd) ==
  [session |-> session, tool_name |-> tool_name, tool_input |-> ti,
   sanitized_input |-> sanitize(to_string(ti)),
   file_path |-> extract_file_path(tool_name, ti), cwd |-> cwd]

CacheKey(input) ==
  [sanitized_input |-> input.sanitized_input, tool |-> input.tool_name,
   role |-> role_name(input.session)]

\* ------------------------------------------------------------------------
\* Tier 0: path policy
\* ------------------------------------------------------------------------
\* The paths one clause contributes: rm, mkdir, touch give their first
\* argument, mv and cp their first two, every command its redirect target.
ClausePaths(c) ==
  (CASE c.verb \in {"rm", "mkdir", "touch"} /\ Len(c.args) >= 1 -> {c.args[1]}
     [] c.verb \in {"mv", "cp"} /\ Len(c.args) >= 2 -> {c.args[1], c.args[2]}
     [] OTHER -> {})
  \cup (IF IsSome(c.redirect) THEN {Unwrap(c.redirect)} ELSE {})

\* PathPolicyEngine::extract_bash_paths: collect, drop /dev/null, sort, dedup.
extract_bash_paths(cmd) ==
  LET found == UNION {ClausePaths(cmd[i]) : i \in DOMAIN cmd} \ {DevNull}
  IN SelectSeq(PathsSorted, LAMBDA p : p \in found)

\* PathPolicyEngine::extract_paths
extract_paths(tool_name, input) ==
  CASE tool_name \in {"Write", "Edit", "Read", "Glob", "Grep"} ->
         IF IsSome(input.file_path) THEN <<Unwrap(input.file_path)>> ELSE <<>>
    [] tool_name = "Bash" ->
         IF IsSome(input.tool_input.command)
         THEN extract_bash_paths(Unwrap(input.tool_input.command))
         ELSE <<>>
    [] OTHER -> <<>>

\* PathPolicyEngine::relativize (Path::strip_prefix is component-wise).
relativize(path, cwd) ==
  IF IsSome(cwd)
  THEN LET c == Unwrap(cwd)
       IN IF Len(c) <= Len(path) /\ SubSeq(path, 1, Len(c)) = c
          THEN SubSeq(path, Len(c) + 1, Len(path))
          ELSE path
  ELSE path

is_read_only(tool_name) == tool_name \in {"Read", "Glob", "Grep"}

\* Variant of PathVerdict: deny_write is checked before sensitive_ask_write.
PathVerdictDenyFirst(policy, tool_name, path) ==
  IF is_read_only(tool_name)
  THEN IF is_match(policy.sensitive_ask_write, path) THEN Some("ask")
       ELSE IF is_match(policy.allow_read, path) THEN None
       ELSE Some("deny")
  ELSE IF is_match(policy.deny_write, path) THEN Some("deny")
       ELSE IF is_match(policy.sensitive_ask_write, path) THEN Some("ask")
       ELSE IF is_match(policy.allow_write, path) THEN Some("allow")
       ELSE None

\* Variant of PathVerdict: a read of a path under deny_write is denied.
PathVerdictReadDenyWrite(policy, tool_name, path) ==
  IF is_read_only(tool_name)
  THEN IF is_match(policy.sensitive_ask_write, path) THEN Some("ask")
       ELSE IF is_match(policy.deny_write, path) THEN Some("deny")
       ELSE IF is_match(policy.allow_read, path) THEN None
       ELSE Some("deny")
  ELSE IF is_match(policy.sensitive_ask_write, path) THEN Some("ask")
       ELSE IF is_match(policy.deny_write, path) THEN Some("deny")
       ELSE IF is_match(policy.allow_write, path) THEN Some("allow")
       ELSE None

\* The verdict of one path (the if/else chain in the loop of evaluate).
PathVerdict(policy, tool_name, path) ==
  IF is_read_only(tool_name)
  THEN IF is_match(policy.sensitive_ask_write, path) THEN Some("ask")
       ELSE IF is_match(policy.allow_read, path) THEN None
       ELSE Some("deny")
  ELSE IF is_match(policy.sensitive_ask_write, path) THEN Some("ask")
       ELSE IF is_match(policy.deny_write, path) THEN Some("deny")
       ELSE IF is_match(policy.allow_write, path) THEN Some("allow")
       ELSE None

\* Variant of dominated: the first verdict found is kept.
dominatedFirstWins(worst, d) == worst = None

\* Whether a new verdict d replaces the current worst decision.
dominated(worst, d) ==
  IF worst = None THEN TRUE ELSE precedence(d) > precedence(Unwrap(worst))

\* Variant of WorstOver: a path without a verdict resets the worst decision.
RECURSIVE WorstOverUnmatchedResets(_, _, _, _)
WorstOverUnmatchedResets(policy, tool_name, paths, worst) ==
  IF paths = <<>> THEN worst
  ELSE LET d == PathVerdict(policy, tool_name, Head(paths))
           next == IF d = None THEN [decision |-> None, path |-> <<>>]
                   ELSE IF dominated(worst.decision, Unwrap(d))
                   THEN [decision |-> d, path |-> Head(paths)]
                   ELSE worst
       IN WorstOverUnmatchedResets(policy, tool_name, Tail(paths), next)

\* The loop over the paths: worst is [decision, path].
RECURSIVE WorstOver(_, _, _, _)
WorstOver(policy, tool_name, paths, worst) ==
  IF paths = <<>> THEN worst
  ELSE LET d == PathVerdict(policy, tool_name, Head(paths))
           next == IF IsSome(d) /\ dominated(worst.decision, Unwrap(d))
                   THEN [decision |-> d, path |-> Head(paths)]
                   ELSE worst
       IN WorstOver(policy, tool_name, Tail(paths), next)

worst_reason(d, path) ==
  <<"path">> \o path \o
  <<CASE d = "deny" -> "denied by role path policy"
      [] d = "ask" -> "matches sensitive path pattern"
      [] d = "allow" -> "allowed by role path policy">>

\* PathPolicyEngine::evaluate: Some(record) or None (fall through).
PathPolicyEvaluate(input, now) ==
  IF input.session.path_policy = None THEN None
  ELSE LET policy == Unwrap(input.session.path_policy)
           raw_paths == extract_paths(input.tool_name, input)
           paths == [i \in DOMAIN raw_paths |-> relativize(raw_paths[i], input.cwd)]
           worst == WorstOver(policy, input.tool_name, paths,
                              [decision |-> None, path |-> <<>>])
       IN IF raw_paths = <<>> THEN None
          ELSE IF worst.decision = None THEN None
          ELSE Some([key |-> CacheKey(input),
                     decision |-> Unwrap(worst.decision),
                     tier |-> "PathPolicy",
                     confidence |-> 100,
                     reason |-> worst_reason(Unwrap(worst.decision), worst.path),
                     matched_key |-> None,
                     timestamp |-> now,
                     scope |-> "role",
                     file_path |-> Some(worst.path),
                     session_id |-> ""])

\* ------------------------------------------------------------------------
\* State
\* ------------------------------------------------------------------------
VARIABLES
  session,        \* the SessionContext the runner is called with
  humanKind,      \* "queue": HumanTier over the DecisionQueue; "noop": a stub
  exactCache,     \* ExactCache: CacheKey -> DecisionRecord
  tokenIndex,     \* TokenJaccard index: sequence of records
  embedIndex,     \* EmbeddingSimilarity index: sequence of records
  store,          \* JSONL store: sequence of appended records
  qfPending,      \* queue file: id -> PendingDecision
  qfResponses,    \* queue file: id -> HumanResponse
  memPending,     \* DecisionQueue.pending of the hook process
  memCompleted,   \* DecisionQueue.completed of the hook process
  pc,             \* "idle" or "waiting" (inside wait_for_response)
  cur,            \* the evaluation in progress
  elapsed,        \* sleeps done by the current wait_for_response
  hist,           \* completed evaluations, oldest first
  pp,             \* input and output of a stand-alone path-policy evaluation
  sv,             \* the supervisor backend invocation in progress
  hr,             \* input, response and record of a stand-alone HumanTier record
  procs,          \* the processes that share the queue file, step by step
  ck,             \* the process of the check command, step by step
  app             \* input and result of a stand-alone sanitize, merge or roles load

vars == <<session, humanKind, exactCache, tokenIndex, embedIndex, store,
          qfPending, qfResponses, memPending, memCompleted, pc, cur,
          elapsed, hist, pp, sv, hr, procs, ck, app>>

cascadeVars == <<session, humanKind, exactCache, tokenIndex, embedIndex, store,
                 qfPending, qfResponses, memPending, memCompleted, pc, cur,
                 elapsed, hist>>

EmptyMap == [k \in {} |-> TRUE]
MapPut(m, k, v) == [x \in DOMAIN m \cup {k} |-> IF x = k THEN v ELSE m[x]]
\* Variant of MapRemove: the entry stays.
MapRemoveKeeps(m, k) == m

MapRemove(m, k) == [x \in DOMAIN m \ {k} |-> m[x]]

\* Logical time of the evaluation in progress (Utc::now()).
now == Len(hist) + 1

\* ------------------------------------------------------------------------
\* Tier 1: exact cache
\* ------------------------------------------------------------------------
\* ExactCache::evaluate: a hit returns the cached record with tier ExactCache.
ExactCacheEvaluate(input) ==
  LET key == CacheKey(input)
  IN IF key \in DOMAIN exactCache
     THEN Some([exactCache[key] EXCEPT !.tier = "ExactCache"])
     ELSE None

\* ExactCache::insert
ExactCacheInsert(cache, record) == MapPut(cache, record.key, record)

\* ------------------------------------------------------------------------
\* Tier 2: token Jaccard
\* ------------------------------------------------------------------------
\* TokenJaccard::new(0.7, 3): threshold in percent, minimum token count.
JaccardThreshold == 70
JaccardMinTokens == 3

Lower(a) == CASE a = "README.md" -> "readme.md"
              [] a = Redacted -> "<redacted>"
              [] OTHER -> a

\* Token set of a sanitized input (split, lowercase).
Tokenise(s) == {Lower(s[i]) : i \in DOMAIN s}

Inter(A, B) == Cardinality(A \cap B)
Union(A, B) == Cardinality(A \cup B)

\* TokenJaccard::evaluate
TokenJaccardEvaluate(input) ==
  LET A == Tokenise(input.sanitized_input)
      T(i) == Tokenise(tokenIndex[i].key.sanitized_input)
      cands == {i \in DOMAIN tokenIndex :
                  /\ tokenIndex[i].key.tool = input.tool_name
                  /\ 100 * Inter(A, T(i)) > JaccardThreshold * Union(A, T(i))}
      \* i is at least as good as j: higher score, then newer timestamp
      Better(i, j) ==
        \/ Inter(A, T(i)) * Union(A, T(j)) > Inter(A, T(j)) * Union(A, T(i))
        \/ /\ Inter(A, T(i)) * Union(A, T(j)) = Inter(A, T(j)) * Union(A, T(i))
           /\ \/ tokenIndex[i].timestamp > tokenIndex[j].timestamp
              \/ tokenIndex[i].timestamp = tokenIndex[j].timestamp /\ i >= j
      best == CHOOSE i \in cands : \A j \in cands : Better(i, j)
  IN IF Cardinality(A) < JaccardMinTokens \/ cands = {} THEN None
     ELSE Some([key |-> CacheKey(input),
                decision |-> tokenIndex[best].decision,
                tier |-> "TokenJaccard",
                confidence |-> tokenIndex[best].confidence,
                reason |-> <<"token similarity match">>,
                matched_key |-> Some(tokenIndex[best].key),
                timestamp |-> now,
                scope |-> tokenIndex[best].scope,
                file_path |-> input.file_path,
                session_id |-> ""])

\* ------------------------------------------------------------------------
\* Tier 3: embedding similarity
\* ------------------------------------------------------------------------
\* EmbeddingSimilarity::new("default", 0.85): threshold in percent.
EmbeddingThreshold == 85

\* The encoder: one dimension per token, command words weigh 3, others 1.
CommandWords == {"cargo", "git", "rm", "mv", "echo"}
Weight2(t) == IF t \in CommandWords THEN 9 ELSE 1

RECURSIVE SumW(_)
SumW(S) == IF S = {} THEN 0
           ELSE LET t == CHOOSE x \in S : TRUE IN Weight2(t) + SumW(S \ {t})

\* cosine(a, b) >= threshold, on squares of integers
CosineAtLeast(A, B) ==
  LET dot == SumW(A \cap B)
  IN dot * dot * 10000 >= EmbeddingThreshold * EmbeddingThreshold * SumW(A) * SumW(B)

\* EmbeddingSimilarity::evaluate: neighbours over the threshold vote.
EmbeddingEvaluate(input) ==
  LET A == Tokenise(input.sanitized_input)
      near == {i \in DOMAIN embedIndex :
                 /\ embedIndex[i].key.tool = input.tool_name
                 /\ CosineAtLeast(A, Tokenise(embedIndex[i].key.sanitized_input))}
      votes(d) == Cardinality({i \in near : embedIndex[i].decision = d})
      voted == {d \in Decisions : votes(d) > 0}
      top == {d \in voted : \A e \in voted : votes(d) >= votes(e)}
      winner == CHOOSE d \in voted : \A e \in voted : precedence(d) >= precedence(e)
      m == CHOOSE i \in near : embedIndex[i].decision = winner
                               /\ \A j \in near : embedIndex[j].decision = winner => i >= j
  IN IF near = {} THEN None
     ELSE IF Cardinality(voted) > 1 /\ Cardinality(top) > 1 THEN None
     ELSE Some([key |-> CacheKey(input),
                decision |-> winner,
                tier |-> "EmbeddingSimilarity",
                confidence |-> embedIndex[m].confidence,
                reason |-> <<"embedding similarity match">>,
                matched_key |-> Some(embedIndex[m].key),
                timestamp |-> now,
                scope |-> embedIndex[m].scope,
                file_path |-> input.file_path,
                session_id |-> ""])

\* ------------------------------------------------------------------------
\* Tier 4: supervisor
\* ------------------------------------------------------------------------
\* policy.confidence.project, in percent.
ConfidenceProject == 80

\* What a backend invocation can produce: an error, or a response.
SupervisorOutcomes ==
  {[kind |-> "err", decision |-> "deny", confidence |-> 0],
   [kind |-> "ok", decision |-> "deny", confidence |-> 50],
   [kind |-> "ok", decision |-> "allow", confidence |-> 80],
   [kind |-> "ok", decision |-> "deny", confidence |-> 80]}

\* Variant of SupervisorEvaluate: a record below the confidence threshold
\* is returned like any other.
SupervisorEvaluateNoGate(input, outcome) ==
  IF outcome.kind = "err" THEN None
  ELSE Some([key |-> CacheKey(input),
             decision |-> outcome.decision,
             tier |-> "Supervisor",
             confidence |-> outcome.confidence,
             reason |-> <<"supervisor">>,
             matched_key |-> None,
             timestamp |-> now,
             scope |-> "project",
             file_path |-> input.file_path,
             session_id |-> ""])

\* Variant of SupervisorEvaluate: a backend error ends the tier with a deny
\* record instead of a fall-through.
SupervisorEvaluateErrorResolves(input, outcome) ==
  IF outcome.kind = "ok" /\ outcome.confidence < ConfidenceProject THEN None
  ELSE Some([key |-> CacheKey(input),
             decision |-> outcome.decision,
             tier |-> "Supervisor",
             confidence |-> IF outcome.kind = "err" THEN 100 ELSE outcome.confidence,
             reason |-> <<"supervisor">>,
             matched_key |-> None,
             timestamp |-> now,
             scope |-> "project",
             file_path |-> input.file_path,
             session_id |-> ""])

\* SupervisorTier::evaluate over the backend's outcome.
SupervisorEvaluate(input, outcome) ==
  IF outcome.kind = "err" THEN None
  ELSE IF outcome.confidence < ConfidenceProject THEN None
  ELSE Some([key |-> CacheKey(input),
             decision |-> outcome.decision,
             tier |-> "Supervisor",
             confidence |-> outcome.confidence,
             reason |-> <<"supervisor">>,
             matched_key |-> None,
             timestamp |-> now,
             scope |-> "project",
             file_path |-> input.file_path,
             session_id |-> ""])

\* ------------------------------------------------------------------------
\* Tier 5: human (DecisionQueue over the shared queue file)
\* ------------------------------------------------------------------------
\* HumanResponse values the operator can give.
HumanResponses ==
  {[decision |-> "allow", always_ask |-> FALSE, add_rule |-> FALSE, rule_scope |-> None],
   [decision |-> "deny", always_ask |-> TRUE, add_rule |-> TRUE, rule_scope |-> Some("user")]}

\* The id and PendingDecision HumanTier::evaluate builds.
PendingId(input) == <<role_name(input.session), input.tool_name, now>>

PendingDecision(input) ==
  [id |-> PendingId(input), session_id |-> "", role |-> role_name(input.session),
   tool_name |-> input.tool_name, sanitized_input |-> input.sanitized_input,
   file_path |-> input.file_path, recommendation |-> None, queued_at |-> now]

\* Variant of HumanRecord: always_ask is ignored.
HumanRecordIgnoresAlwaysAsk(input, response) ==
  [key |-> CacheKey(input),
   decision |-> response.decision,
   tier |-> "Human",
   confidence |-> 100,
   reason |-> <<"human decision:", response.decision>>,
   matched_key |-> None,
   timestamp |-> now,
   scope |-> IF IsSome(response.rule_scope) THEN Unwrap(response.rule_scope) ELSE "project",
   file_path |-> input.file_path,
   session_id |-> ""]

\* The record HumanTier::evaluate builds from a response.
HumanRecord(input, response) ==
  [key |-> CacheKey(input),
   decision |-> IF response.always_ask THEN "ask" ELSE response.decision,
   tier |-> "Human",
   confidence |-> 100,
   reason |-> <<"human decision:", response.decision>>,
   matched_key |-> None,
   timestamp |-> now,
   scope |-> IF IsSome(response.rule_scope) THEN Unwrap(response.rule_scope) ELSE "project",
   file_path |-> input.file_path,
   session_id |-> ""]

\* ------------------------------------------------------------------------
\* Cascade runner
\* ------------------------------------------------------------------------
\* The five tiers that answer at once; a stub human tier returns None.
TierEvaluate(t, input, outcome) ==
  CASE t = "PathPolicy" -> PathPolicyEvaluate(input, now)
    [] t = "ExactCache" -> ExactCacheEvaluate(input)
    [] t = "TokenJaccard" -> TokenJaccardEvaluate(input)
    [] t = "EmbeddingSimilarity" -> EmbeddingEvaluate(input)
    [] t = "Supervisor" -> SupervisorEvaluate(input, outcome)
    [] t = "Human" -> None

\* The loop `for tier in &tiers`: the first record ends it.  The loop is
\* suspended when it reaches the queue-backed human tier.
RECURSIVE RunTiers(_, _, _, _)
RunTiers(tiers, input, outcome, consulted) ==
  IF tiers = <<>>
  THEN [status |-> "none", record |-> None, consulted |-> consulted]
  ELSE LET t == Head(tiers)
       IN IF t = "Human" /\ humanKind = "queue"
          THEN [status |-> "suspend", record |-> None,
                consulted |-> Append(consulted, t)]
          ELSE LET r == TierEvaluate(t, input, outcome)
               IN IF IsSome(r)
                  THEN [status |-> "resolved", record |-> r,
                        consulted |-> Append(consulted, t)]
                  ELSE RunTiers(Tail(tiers), input, outcome, Append(consulted, t))

\* format!("{}/{}/{}", org, project, user) for records without a session id.
FillSessionId(record) ==
  IF record.session_id = "" THEN [record EXCEPT !.session_id = "org/project/user"]
  ELSE record

\* The Default-tier record built when no tier resolved.
DefaultRecord(input) ==
  [key |-> CacheKey(input),
   decision |-> "deny",
   tier |-> "Default",
   confidence |-> 100,
   reason |-> <<"no cascade tier resolved; default deny">>,
   matched_key |-> None,
   timestamp |-> now,
   scope |-> "project",
   file_path |-> input.file_path,
   session_id |-> "org/project/user"]

\* Variant of PersistKind: the Default record is returned but not persisted.
PersistKindDefaultSkipped(tier) ==
  CASE tier \in {"ExactCache", "Default"} -> "skip"
    [] tier \in {"TokenJaccard", "EmbeddingSimilarity"} -> "cache"
    [] OTHER -> "full"

\* Variant of PersistKind: supervisor records are not written anywhere.
PersistKindSupervisorSkipped(tier) ==
  CASE tier \in {"ExactCache", "Supervisor"} -> "skip"
    [] tier \in {"TokenJaccard", "EmbeddingSimilarity"} -> "cache"
    [] OTHER -> "full"

\* Variant of PersistKind: similarity hits are not written to the exact cache.
PersistKindSimilaritySkipped(tier) ==
  CASE tier \in {"ExactCache", "TokenJaccard", "EmbeddingSimilarity"} -> "skip"
    [] OTHER -> "full"

\* Variant of PersistKind: every record, cache hits included, is persisted.
PersistKindAlwaysFull(tier) == "full"

\* What is written for a record, by its tier: nothing for ExactCache, the
\* exact cache for the similarity tiers, persist_decision for the others.
PersistKind(tier) ==
  CASE tier = "ExactCache" -> "skip"
    [] tier \in {"TokenJaccard", "EmbeddingSimilarity"} -> "cache"
    [] OTHER -> "full"

\* The match on record.metadata.tier, with persist_decision inlined.
Persist(record) ==
  LET kind == PersistKind(record.tier)
  IN /\ store' = IF kind = "full" THEN Append(store, record) ELSE store
     /\ exactCache' = IF kind \in {"full", "cache"}
                      THEN ExactCacheInsert(exactCache, record) ELSE exactCache
     /\ tokenIndex' = IF kind = "full" THEN Append(tokenIndex, record) ELSE tokenIndex
     /\ embedIndex' = IF kind = "full" THEN Append(embedIndex, record) ELSE embedIndex

\* A completed evaluation, as remembered in hist.
HistEntry(call, input, consulted, resolved_by, status, record) ==
  [call |-> call, key |-> CacheKey(input),
   cached |-> IF CacheKey(input) \in DOMAIN exactCache
              THEN Some(exactCache[CacheKey(input)].decision) ELSE None,
   consulted |-> consulted, resolved_by |-> resolved_by,
   status |-> status, record |-> record]

\* ------------------------------------------------------------------------
\* Tool calls of the model
\* ------------------------------------------------------------------------
CmdBuild == <<Clause("cargo", <<<<"build">>, <<"--release">>>>, None)>>
CmdBuildV == <<Clause("cargo", <<<<"build">>, <<"--release">>, <<"-v">>>>, None)>>
CmdTest == <<Clause("cargo", <<<<"test">>>>, None)>>
CmdPushA == <<Clause("git", <<<<"push">>, <<SecretA>>>>, None)>>
CmdPushB == <<Clause("git", <<<<"push">>, <<SecretB>>>>, None)>>
CmdRmRedirect == <<Clause("rm", <<TestsUnit>>, Some(SrcMain))>>
CmdMv == <<Clause("mv", <<Readme, SrcMain>>, None)>>
CmdEchoNull == <<Clause("echo", <<<<"hello">>>>, Some(DevNull))>>

Call(t, ti, cwd) == [tool_name |-> t, tool_input |-> ti, cwd |-> cwd]

Calls ==
  {Call("Write", FileInput(AbsSrcMain, "x"), None),
   Call("Write", FileInput(AbsSrcMain, "x"), Some(CwdHome)),
   Call("Write", FileInput(EnvLocal, "x"), None),
   Call("Bash", BashInput(CmdBuild), None),
   Call("Bash", BashInput(CmdBuildV), None),
   Call("Bash", BashInput(CmdTest), None),
   Call("Bash", BashInput(CmdPushA), None),
   Call("Bash", BashInput(CmdPushB), None),
   Call("Bash", BashInput(CmdRmRedirect), None)}

Sessions == {CoderSession, NoRoleSession}

\* ------------------------------------------------------------------------
\* Actions of the cascade
\* ------------------------------------------------------------------------
NoCur == [call |-> None, input |-> None, id |-> None, consulted |-> <<>>]

\* A record an earlier run of the hook persisted for `cargo build --release`.
StoredRecord(s) ==
  [key |-> CacheKey(CascadeInput(s, "Bash", BashInput(CmdBuild), None)),
   decision |-> "allow",
   tier |-> "Supervisor",
   confidence |-> 95,
   reason |-> <<"supervisor">>,
   matched_key |-> None,
   timestamp |-> 0,
   scope |-> "project",
   file_path |-> None,
   session_id |-> "org/project/user"]

\* ExactCache::load_from: insert the loaded records, oldest first.
RECURSIVE load_from(_)
load_from(records) ==
  IF records = <<>> THEN EmptyMap
  ELSE ExactCacheInsert(load_from(SubSeq(records, 1, Len(records) - 1)),
                        records[Len(records)])

\* The runner as check::run builds it: the indices mirror the stored
\* project-scope decisions.
CascadeInit ==
  /\ session \in Sessions
  /\ humanKind \in {"queue", "noop"}
  /\ store \in {<<>>, <<StoredRecord(session)>>}
  /\ exactCache = load_from(store)
  /\ tokenIndex = store
  /\ embedIndex = store
  /\ qfPending = EmptyMap
  /\ qfResponses = EmptyMap
  /\ memPending = EmptyMap
  /\ memCompleted = EmptyMap
  /\ pc = "idle"
  /\ cur = NoCur
  /\ elapsed = 0
  /\ hist = <<>>

\* DecisionQueue::enqueue, as called by HumanTier::evaluate.
Enqueue(pending) ==
  /\ memPending' = MapPut(memPending, pending.id, pending)
  /\ qfPending' = MapPut(qfPending, pending.id, pending)

\* CascadeRunner::evaluate_with_cwd, up to its return or to the wait of
\* the human tier.
Evaluate(call, outcome) ==
  /\ pc = "idle"
  /\ Len(hist) < MaxCalls
  /\ LET input == CascadeInput(session, call.tool_name, call.tool_input, call.cwd)
         run == RunTiers(TierOrder, input, outcome, <<>>)
     IN CASE run.status = "resolved" ->
               LET record == FillSessionId(Unwrap(run.record))
               IN /\ Persist(record)
                  /\ hist' = Append(hist, HistEntry(call, input, run.consulted,
                                      Some(record.tier), "ok", Some(record)))
                  /\ UNCHANGED <<qfPending, memPending, pc, cur>>
          [] run.status = "none" ->
               LET record == DefaultRecord(input)
               IN /\ Persist(record)
                  /\ hist' = Append(hist, HistEntry(call, input, run.consulted,
                                      None, "ok", Some(record)))
                  /\ UNCHANGED <<qfPending, memPending, pc, cur>>
          [] run.status = "suspend" ->
               /\ Enqueue(PendingDecision(input))
               /\ pc' = "waiting"
               /\ cur' = [call |-> Some(call), input |-> Some(input),
                          id |-> Some(PendingId(input)), consulted |-> run.consulted]
               /\ UNCHANGED <<store, exactCache, tokenIndex, embedIndex, hist>>
  /\ elapsed' = 0
  /\ UNCHANGED <<session, humanKind, qfResponses, memCompleted, pp, sv, hr, procs, ck, app>>

\* DecisionQueue::respond in another process (approve / deny): only the
\* queue file is shared.
OperatorRespond(response) ==
  /\ pc = "waiting"
  /\ LET id == Unwrap(cur.id)
     IN /\ id \in DOMAIN qfPending
        /\ id \notin DOMAIN qfResponses
        /\ id \notin DOMAIN memCompleted
        /\ qfPending' = MapRemove(qfPending, id)
        /\ qfResponses' = MapPut(qfResponses, id, response)
  /\ UNCHANGED <<session, humanKind, exactCache, tokenIndex, embedIndex, store,
                 memPending, memCompleted, pc, cur, elapsed, hist, pp, sv, hr, procs, ck, app>>

\* The human tier returned `response`: the rest of evaluate_with_cwd.
HumanResolved(response) ==
  LET input == Unwrap(cur.input)
      record == FillSessionId(HumanRecord(input, response))
  IN /\ Persist(record)
     /\ hist' = Append(hist, HistEntry(Unwrap(cur.call), input, cur.consulted,
                         Some(record.tier), "ok", Some(record)))
     /\ pc' = "idle"
     /\ cur' = NoCur

\* Variant of HumanTimedOut: the timeout is persisted as a default deny.
HumanTimedOutPersistsDeny ==
  /\ Persist(DefaultRecord(Unwrap(cur.input)))
  /\ hist' = Append(hist, HistEntry(Unwrap(cur.call), Unwrap(cur.input),
                      cur.consulted, None, "HumanTimeout", None))
  /\ pc' = "idle"
  /\ cur' = NoCur

\* The human tier returned Err(HumanTimeout): `tier.evaluate(&input).await?`
\* ends evaluate_with_cwd before anything is persisted.
HumanTimedOut ==
  /\ hist' = Append(hist, HistEntry(Unwrap(cur.call), Unwrap(cur.input),
                      cur.consulted, None, "HumanTimeout", None))
  /\ pc' = "idle"
  /\ cur' = NoCur
  /\ UNCHANGED <<store, exactCache, tokenIndex, embedIndex>>

\* One iteration of the loop of DecisionQueue::wait_for_response.
WaitPoll ==
  /\ pc = "waiting"
  /\ LET id == Unwrap(cur.id)
     IN IF id \in DOMAIN memCompleted
        THEN \* take_response
             /\ memCompleted' = MapRemove(memCompleted, id)
             /\ HumanResolved(memCompleted[id])
             /\ UNCHANGED <<qfPending, qfResponses, memPending, elapsed>>
        ELSE IF id \in DOMAIN qfResponses
        THEN \* response written to the file by another process
             /\ qfResponses' = MapRemove(qfResponses, id)
             /\ qfPending' = MapRemove(qfPending, id)
             /\ memPending' = MapRemove(memPending, id)
             /\ HumanResolved(qfResponses[id])
             /\ UNCHANGED <<memCompleted, elapsed>>
        ELSE IF elapsed >= MaxWait
        THEN \* HumanTimeout: the error is returned by evaluate_with_cwd
             /\ memPending' = MapRemove(memPending, id)
             /\ qfPending' = MapRemove(qfPending, id)
             /\ HumanTimedOut
             /\ UNCHANGED <<qfResponses, memCompleted, elapsed>>
        ELSE \* sleep 200 ms
             /\ elapsed' = elapsed + 1
             /\ UNCHANGED <<qfPending, qfResponses, memPending, memCompleted,
                            pc, cur, hist, store, exactCache, tokenIndex, embedIndex>>
  /\ UNCHANGED <<session, humanKind, pp, sv, hr, procs, ck, app>>

PpIdle == [stage |-> "idle"]

\* No backend invocation, no stand-alone record, no queue process.
SvIdle == [stage |-> "idle"]
HrIdle == [stage |-> "idle"]
NoProcs == <<>>
\* No check command running, no stand-alone function application.
CkIdle == [stage |-> "idle"]
AppIdle == [stage |-> "idle"]

Init == CascadeInit /\ pp = PpIdle /\ sv = SvIdle /\ hr = HrIdle /\ procs = NoProcs /\ ck = CkIdle /\ app = AppIdle

\* ------------------------------------------------------------------------
\* The runner over a store and an embedding index that may fail
\* ------------------------------------------------------------------------
\* Outcome of the two fallible calls of persist_decision: save_decision of
\* the storage backend and insert of the embedding index.
StorageOutcomes == {[save |-> s, embed |-> e] : s \in BOOLEAN, e \in BOOLEAN}

\* Variant of persist_decision: the token index is not updated.
persist_decisionNoTokenIndex(record, io) ==
  IF ~io.save
  THEN UNCHANGED <<store, exactCache, tokenIndex, embedIndex>>
  ELSE /\ store' = Append(store, record)
       /\ exactCache' = ExactCacheInsert(exactCache, record)
       /\ tokenIndex' = tokenIndex
       /\ embedIndex' = IF io.embed THEN Append(embedIndex, record) ELSE embedIndex

\* CascadeRunner::persist_decision: `save_decision(record)?` leaves at once
\* on an error; a failed embedding insert is logged and skipped.
persist_decision(record, io) ==
  IF ~io.save
  THEN UNCHANGED <<store, exactCache, tokenIndex, embedIndex>>
  ELSE /\ store' = Append(store, record)
       /\ exactCache' = ExactCacheInsert(exactCache, record)
       /\ tokenIndex' = Append(tokenIndex, record)
       /\ embedIndex' = IF io.embed THEN Append(embedIndex, record) ELSE embedIndex

\* The match on record.metadata.tier around persist_decision.
PersistMatch(record, io) ==
  CASE PersistKind(record.tier) = "skip" ->
         UNCHANGED <<store, exactCache, tokenIndex, embedIndex>>
    [] PersistKind(record.tier) = "cache" ->
         /\ exactCache' = ExactCacheInsert(exactCache, record)
         /\ UNCHANGED <<store, tokenIndex, embedIndex>>
    [] OTHER -> persist_decision(record, io)

\* What evaluate_with_cwd returns for a record: `persist_decision(..).await?`
\* turns a storage error into the result of the evaluation.
PersistResult(record, io) ==
  IF PersistKind(record.tier) = "full" /\ ~io.save THEN "StorageError" ELSE "ok"

\* A completed evaluation with the record its tier produced and the outcome
\* of the fallible calls.
PersistEntry(call, input, consulted, record, io) ==
  [call |-> call, key |-> CacheKey(input), consulted |-> consulted,
   resolved |-> record, io |-> io,
   status |-> PersistResult(record, io),
   record |-> IF PersistResult(record, io) = "ok" THEN Some(record) ELSE None]

PersistInit ==
  /\ CascadeInit
  /\ humanKind = "noop"
  /\ pp = PpIdle /\ sv = SvIdle /\ hr = HrIdle
  /\ procs = NoProcs /\ ck = CkIdle /\ app = AppIdle

\* CascadeRunner::evaluate_with_cwd with a human tier that returns None.
PersistEvaluate(call, outcome, io) ==
  /\ Len(hist) < MaxCalls
  /\ LET input == CascadeInput(session, call.tool_name, call.tool_input, call.cwd)
         run == RunTiers(TierOrder, input, outcome, <<>>)
         record == IF run.status = "resolved"
                   THEN FillSessionId(Unwrap(run.record))
                   ELSE DefaultRecord(input)
     IN /\ PersistMatch(record, io)
        /\ hist' = Append(hist, PersistEntry(call, input, run.consulted, record, io))
  /\ UNCHANGED <<session, humanKind, qfPending, qfResponses, memPending,
                 memCompleted, pc, cur, elapsed, pp, sv, hr, procs, ck, app>>

PersistNext ==
  \E call \in Calls, outcome \in SupervisorOutcomes, io \in StorageOutcomes :
    PersistEvaluate(call, outcome, io)

SpecPersist == PersistInit /\ [][PersistNext]_vars

\* ------------------------------------------------------------------------
\* Stand-alone evaluation of the path-policy tier over a range of policies
\* ------------------------------------------------------------------------
PathInput(p) == [NoFields EXCEPT !.path = Some(p)]

CmdMvRedirect == <<Clause("mv", <<EnvLocal, TestsUnit>>, Some(SrcMain))>>
CmdRmAbs == <<Clause("rm", <<AbsSrcMain>>, None)>>

PolicyGlobs == {GlobDir(<<"src">>), GlobDir(<<"tests">>), GlobPre(".env")}

PolicySessions ==
  {[role |-> Some("coder"),
    path_policy |-> Some([allow_write |-> aw, deny_write |-> dw,
                          allow_read |-> ar, sensitive_ask_write |-> sa])] :
     aw \in SUBSET PolicyGlobs, dw \in SUBSET PolicyGlobs,
     ar \in {{}, {GlobAll}, {GlobDir(<<"src">>)}}, sa \in SUBSET PolicyGlobs}
  \cup {NoRoleSession}

PolicyCalls ==
  {Call(t, FileInput(p, "x"), c) :
     t \in {"Write", "Edit", "Read"},
     p \in {SrcMain, AbsSrcMain, TestsUnit, EnvLocal, Readme},
     c \in {None, Some(CwdHome)}}
  \cup {Call("Grep", PathInput(p), None) : p \in {SrcMain, Readme}}
  \cup {Call("NotebookEdit", NotebookInput(TestsUnit), None)}
  \cup {Call("Bash", BashInput(cmd), c) :
          cmd \in {CmdBuild, CmdEchoNull, CmdRmRedirect, CmdMv, CmdMvRedirect, CmdRmAbs},
          c \in {None, Some(CwdHome)}}

PolicyInit ==
  /\ session = NoRoleSession
  /\ humanKind = "noop"
  /\ store = <<>>
  /\ exactCache = EmptyMap
  /\ tokenIndex = <<>>
  /\ embedIndex = <<>>
  /\ qfPending = EmptyMap
  /\ qfResponses = EmptyMap
  /\ memPending = EmptyMap
  /\ memCompleted = EmptyMap
  /\ pc = "idle"
  /\ cur = NoCur
  /\ elapsed = 0
  /\ hist = <<>>
  /\ sv = SvIdle
  /\ hr = HrIdle
  /\ procs = NoProcs /\ ck = CkIdle /\ app = AppIdle
  /\ \E s \in PolicySessions, call \in PolicyCalls :
       pp = [stage |-> "in",
             input |-> CascadeInput(s, call.tool_name, call.tool_input, call.cwd),
             out |-> None]

\* PathPolicyEngine::evaluate applied to the drawn input.
PolicyApply ==
  /\ pp.stage = "in"
  /\ pp' = [pp EXCEPT !.stage = "out", !.out = PathPolicyEvaluate(pp.input, now)]
  /\ UNCHANGED cascadeVars
  /\ UNCHANGED <<sv, hr, procs, ck, app>>

PolicyNext == PolicyApply

SpecPolicy == PolicyInit /\ [][PolicyNext]_vars

\* ------------------------------------------------------------------------
\* One evaluation, the supervisor backend invocation followed step by step
\* ------------------------------------------------------------------------
\* UnixSocketSupervisor.timeout_secs (30 in check::run), in ticks of the clock.
timeout_secs == 2

\* Ticks of the clock an invocation is followed for.
MaxClock == 3

\* UnixSocketSupervisor and ApiSupervisor.
Backends == {"socket", "api"}

\* Err(CaptainHookError::e) returned by a backend.
BackendError(e) == [kind |-> "err", decision |-> "deny", confidence |-> 0, error |-> e]

\* SupervisorResponse values a peer can send.
BackendResponses ==
  {[kind |-> "ok", decision |-> d, confidence |-> c, error |-> ""] :
     d \in Decisions, c \in {0, 79, 80, 100}}

\* The awaits of the two backends: connect, write_all/shutdown and
\* read_to_end inside tokio::time::timeout; send, text and json of reqwest.
SocketAwaits == {"connect", "write", "read"}
ApiAwaits == {"send", "text", "json"}

\* The await that follows one that completed without error.
NextAwait == {<<"connect", "write">>, <<"write", "read">>,
              <<"send", "json">>, <<"send", "text">>}

\* The error a failing await is mapped to by map_err.
AwaitError(stage) ==
  CASE stage \in SocketAwaits -> "Ipc"
    [] stage = "text" -> "Api"
    [] OTHER -> "Supervisor"

SvReturn(outcome) == [sv EXCEPT !.stage = "returned", !.outcome = Some(outcome)]

\* The runner and one backend, before the call.
SupInit ==
  /\ CascadeInit
  /\ pp = PpIdle
  /\ hr = HrIdle
  /\ procs = NoProcs /\ ck = CkIdle /\ app = AppIdle
  /\ \E b \in Backends :
       sv = [backend |-> b, stage |-> "idle", clock |-> 0, outcome |-> None]

\* The end of evaluate_with_cwd once the loop over `tiers` has run.
Complete(call, input, run) ==
  CASE run.status = "resolved" ->
         LET record == FillSessionId(Unwrap(run.record))
         IN /\ Persist(record)
            /\ hist' = Append(hist, HistEntry(call, input, run.consulted,
                                Some(record.tier), "ok", Some(record)))
            /\ pc' = "idle"
            /\ cur' = NoCur
            /\ UNCHANGED <<qfPending, memPending>>
    [] run.status = "none" ->
         LET record == DefaultRecord(input)
         IN /\ Persist(record)
            /\ hist' = Append(hist, HistEntry(call, input, run.consulted,
                                None, "ok", Some(record)))
            /\ pc' = "idle"
            /\ cur' = NoCur
            /\ UNCHANGED <<qfPending, memPending>>
    [] run.status = "suspend" ->
         /\ Enqueue(PendingDecision(input))
         /\ pc' = "waiting"
         /\ cur' = [call |-> Some(call), input |-> Some(input),
                    id |-> Some(PendingId(input)), consulted |-> run.consulted]
         /\ UNCHANGED <<store, exactCache, tokenIndex, embedIndex, hist>>

\* evaluate_with_cwd up to the call of the supervisor backend: the four
\* tiers before the supervisor, then SupervisorTier::evaluate up to
\* backend.evaluate.
SupBegin(call) ==
  /\ pc = "idle"
  /\ sv.stage = "idle"
  /\ LET input == CascadeInput(session, call.tool_name, call.tool_input, call.cwd)
         run == RunTiers(SubSeq(TierOrder, 1, 4), input,
                         CHOOSE o \in SupervisorOutcomes : TRUE, <<>>)
     IN IF run.status = "resolved"
        THEN /\ Complete(call, input, run)
             /\ sv' = [sv EXCEPT !.stage = "done"]
        ELSE /\ pc' = "supervisor"
             /\ cur' = [call |-> Some(call), input |-> Some(input),
                        id |-> None, consulted |-> run.consulted]
             /\ sv' = [sv EXCEPT !.stage = IF sv.backend = "socket"
                                           THEN "start" ELSE "send"]
             /\ UNCHANGED <<store, exactCache, tokenIndex, embedIndex, hist,
                            qfPending, memPending>>
  /\ UNCHANGED <<session, humanKind, qfResponses, memCompleted, elapsed,
                 pp, hr, procs, ck, app>>

\* UnixSocketSupervisor::evaluate: the check of socket_path.exists().
SocketExists(exists) ==
  /\ sv.stage = "start"
  /\ sv' = IF exists THEN [sv EXCEPT !.stage = "connect"]
           ELSE SvReturn(BackendError("SocketNotFound"))
  /\ UNCHANGED <<cascadeVars, pp, hr, procs, ck, app>>

\* An await completes without error and the next one begins.
AwaitOk(next) ==
  /\ <<sv.stage, next>> \in NextAwait
  /\ sv' = [sv EXCEPT !.stage = next]
  /\ UNCHANGED <<cascadeVars, pp, hr, procs, ck, app>>

\* An await ends with an error (for text: with the body of a non-2xx reply).
AwaitFails ==
  /\ sv.stage \in SocketAwaits \cup ApiAwaits
  /\ sv' = SvReturn(BackendError(AwaitError(sv.stage)))
  /\ UNCHANGED <<cascadeVars, pp, hr, procs, ck, app>>

\* The reply is read: serde_json::from_slice / parse_response reject it
\* (malformed) or give a SupervisorResponse.
ReplyRead(malformed, response) ==
  /\ sv.stage \in {"read", "json"}
  /\ sv' = IF malformed THEN SvReturn(BackendError("Supervisor"))
           ELSE SvReturn(response)
  /\ UNCHANGED <<cascadeVars, pp, hr, procs, ck, app>>

\* Time passes while an await is pending.  Inside tokio::time::timeout the
\* clock does not pass the deadline with the await still pending; the
\* requests of reqwest::Client::new() carry no deadline.
Tick ==
  /\ sv.stage \in SocketAwaits \cup ApiAwaits
  /\ sv.clock < (IF sv.stage \in SocketAwaits THEN timeout_secs ELSE MaxClock)
  /\ sv' = [sv EXCEPT !.clock = sv.clock + 1]
  /\ UNCHANGED <<cascadeVars, pp, hr, procs, ck, app>>

\* tokio::time::timeout elapses: Err(SupervisorTimeout).
TimeoutElapsed ==
  /\ sv.stage \in SocketAwaits
  /\ sv.clock >= timeout_secs
  /\ sv' = SvReturn(BackendError("SupervisorTimeout"))
  /\ UNCHANGED <<cascadeVars, pp, hr, procs, ck, app>>

\* backend.evaluate returned: the rest of SupervisorTier::evaluate and of
\* the loop of evaluate_with_cwd (the human tier up to its wait).
SupTierReturn ==
  /\ pc = "supervisor"
  /\ sv.stage = "returned"
  /\ Complete(Unwrap(cur.call), Unwrap(cur.input),
              RunTiers(SubSeq(TierOrder, 5, 6), Unwrap(cur.input),
                       Unwrap(sv.outcome), cur.consulted))
  /\ sv' = [sv EXCEPT !.stage = "done"]
  /\ UNCHANGED <<session, humanKind, qfResponses, memCompleted, elapsed,
                 pp, hr, procs, ck, app>>

SupNext ==
  \/ \E call \in Calls : SupBegin(call)
  \/ \E exists \in BOOLEAN : SocketExists(exists)
  \/ \E next \in SocketAwaits \cup ApiAwaits : AwaitOk(next)
  \/ AwaitFails
  \/ \E malformed \in BOOLEAN, response \in BackendResponses :
       ReplyRead(malformed, response)
  \/ Tick
  \/ TimeoutElapsed
  \/ SupTierReturn

SpecSupervisor == SupInit /\ [][SupNext]_vars

\* ------------------------------------------------------------------------
\* Stand-alone construction of the human tier's record over all responses
\* ------------------------------------------------------------------------
\* ScopeLevel
ScopeLevels == {"org", "project", "user", "role"}

\* Every value of the struct HumanResponse.
AllHumanResponses ==
  {[decision |-> d, always_ask |-> a, add_rule |-> r, rule_scope |-> sc] :
     d \in Decisions, a \in BOOLEAN, r \in BOOLEAN,
     sc \in {None} \cup {Some(x) : x \in ScopeLevels}}

HumanCalls ==
  {Call("Write", FileInput(EnvLocal, "x"), None),
   Call("Bash", BashInput(CmdTest), None),
   Call("Bash", BashInput(CmdPushA), None)}

HumanInit ==
  /\ session \in Sessions
  /\ humanKind = "queue"
  /\ store = <<>>
  /\ exactCache = EmptyMap
  /\ tokenIndex = <<>>
  /\ embedIndex = <<>>
  /\ qfPending = EmptyMap
  /\ qfResponses = EmptyMap
  /\ memPending = EmptyMap
  /\ memCompleted = EmptyMap
  /\ pc = "idle"
  /\ cur = NoCur
  /\ elapsed = 0
  /\ hist = <<>>
  /\ pp = PpIdle
  /\ sv = SvIdle
  /\ procs = NoProcs /\ ck = CkIdle /\ app = AppIdle
  /\ \E call \in HumanCalls, response \in AllHumanResponses :
       hr = [stage |-> "in",
             input |-> CascadeInput(session, call.tool_name, call.tool_input, call.cwd),
             response |-> response,
             out |-> None]

\* HumanTier::evaluate after wait_for_response returned hr.response.
HumanApply ==
  /\ hr.stage = "in"
  /\ hr' = [hr EXCEPT !.stage = "out", !.out = Some(HumanRecord(hr.input, hr.response))]
  /\ UNCHANGED <<cascadeVars, pp, sv, procs, ck, app>>

HumanNext == HumanApply

SpecHuman == HumanInit /\ [][HumanNext]_vars

\* ------------------------------------------------------------------------
\* The queue file shared by several processes, one file access per step
\* ------------------------------------------------------------------------
\* A hook process (HumanTier::evaluate: enqueue, wait_for_response), a
\* process that enqueues and responds on one DecisionQueue and then takes
\* the response, and an operator process that responds to the hook's id.
QueueProcs == {"hook", "test", "op"}

\* The id (role-tool-timestamp) a process works on.
QueueId(p) == <<"coder", "Bash", IF p = "test" THEN 2 ELSE 1>>

QueuePending(id) ==
  [id |-> id, session_id |-> "", role |-> id[1], tool_name |-> id[2],
   sanitized_input |-> <<"command", "cargo", "test">>, file_path |-> None,
   recommendation |-> None, queued_at |-> id[3]]

\* The response of decision_queue_respond_removes_pending.
TestResponse ==
  [decision |-> "allow", always_ask |-> FALSE, add_rule |-> TRUE,
   rule_scope |-> Some("project")]

\* load_queue_file: the whole file, read in one step.
load_queue_file == [pending |-> qfPending, responses |-> qfResponses]

\* save_queue_file: the whole file, written in one step.
save_queue_file(state) ==
  /\ qfPending' = state.pending
  /\ qfResponses' = state.responses

\* Variant of take_response: the response is read and left in the map.
take_responseKeeps(completed, id) ==
  [out |-> IF id \in DOMAIN completed THEN Some(completed[id]) ELSE None,
   completed |-> completed]

\* DecisionQueue::take_response: completed.remove(id).
take_response(completed, id) ==
  [out |-> IF id \in DOMAIN completed THEN Some(completed[id]) ELSE None,
   completed |-> MapRemove(completed, id)]

\* Result<HumanResponse> of wait_for_response ("none": not returned yet).
WaitResult(status, response) == [status |-> status, response |-> response]

\* A process before its first step, with an empty DecisionQueue::new().
ProcInit(p) ==
  [pc |-> IF p = "op" THEN "idle" ELSE "start",
   id |-> QueueId(p),
   snap |-> None,            \* `state`, the file as last loaded
   pending |-> EmptyMap,     \* DecisionQueue.pending
   completed |-> EmptyMap,   \* DecisionQueue.completed
   elapsed |-> 0,            \* sleeps of wait_for_response
   timeout |-> MaxWait,      \* sleeps after which start.elapsed() >= timeout
   polls |-> 0,              \* iterations of the loop begun
   response |-> None,        \* the response passed to respond
   result |-> WaitResult("none", None),  \* what wait_for_response returned
   takes |-> <<>>,           \* what the calls of take_response returned
   answered |-> None]        \* a respond for the id completed in time

QueueInit ==
  /\ session = CoderSession
  /\ humanKind = "queue"
  /\ store = <<>>
  /\ exactCache = EmptyMap
  /\ tokenIndex = <<>>
  /\ embedIndex = <<>>
  /\ qfPending = EmptyMap
  /\ qfResponses = EmptyMap
  /\ memPending = EmptyMap
  /\ memCompleted = EmptyMap
  /\ pc = "idle"
  /\ cur = NoCur
  /\ elapsed = 0
  /\ hist = <<>>
  /\ pp = PpIdle
  /\ sv = SvIdle
  /\ hr = HrIdle
  /\ procs = [p \in QueueProcs |-> ProcInit(p)]
  /\ ck = CkIdle
  /\ app = AppIdle

QueueFrame ==
  UNCHANGED <<session, humanKind, exactCache, tokenIndex, embedIndex, store,
              memPending, memCompleted, pc, cur, elapsed, hist, pp, sv, hr,
              ck, app>>

\* enqueue: pending.insert, then load_queue_file.
EnqueueLoad(p) ==
  /\ p \in {"hook", "hook2", "test"}
  /\ procs[p].pc = "start"
  /\ procs' = [procs EXCEPT ![p].pc = "enq_save",
                            ![p].pending = MapPut(@, procs[p].id, QueuePending(procs[p].id)),
                            ![p].snap = Some(load_queue_file)]
  /\ UNCHANGED <<qfPending, qfResponses>>
  /\ QueueFrame

\* enqueue: state.pending.insert, save_queue_file, return of the id.
EnqueueSave(p) ==
  /\ procs[p].pc = "enq_save"
  /\ LET state == Unwrap(procs[p].snap)
     IN save_queue_file([state EXCEPT !.pending =
                           MapPut(@, procs[p].id, QueuePending(procs[p].id))])
  /\ procs' = [procs EXCEPT ![p].pc = "enqueued", ![p].snap = None]
  /\ QueueFrame

\* respond: pending.remove, completed.insert, then load_queue_file.
RespondLoad(p, response) ==
  /\ \/ p = "test" /\ procs[p].pc = "enqueued" /\ response = TestResponse
     \/ p = "op" /\ procs[p].pc = "idle"
  /\ procs' = [procs EXCEPT ![p].pc = "r_save",
                            ![p].pending = MapRemove(@, procs[p].id),
                            ![p].completed = MapPut(@, procs[p].id, response),
                            ![p].response = Some(response),
                            ![p].snap = Some(load_queue_file)]
  /\ UNCHANGED <<qfPending, qfResponses>>
  /\ QueueFrame

\* A process waits for id inside wait_for_response before its deadline.
WaitsInTime(q, id) ==
  /\ procs[q].id = id
  /\ procs[q].pc \in {"w_poll", "w_check"}
  /\ procs[q].elapsed < procs[q].timeout

\* respond: state.pending.remove, state.responses.insert, save_queue_file,
\* return of Ok.
RespondSave(p) ==
  /\ procs[p].pc = "r_save"
  /\ LET state == Unwrap(procs[p].snap)
         id == procs[p].id
     IN /\ save_queue_file([pending |-> MapRemove(state.pending, id),
                            responses |-> MapPut(state.responses, id,
                                                 Unwrap(procs[p].response))])
        /\ procs' = [q \in DOMAIN procs |->
                       IF q = p
                       THEN [procs[q] EXCEPT !.pc = "responded", !.snap = None]
                       ELSE IF WaitsInTime(q, id)
                       THEN [procs[q] EXCEPT !.answered = procs[p].response]
                       ELSE procs[q]]
  /\ QueueFrame

\* take_response called after respond, twice.
TakeResponse(p) ==
  /\ procs[p].pc \in {"responded", "took1"}
  /\ LET t == take_response(procs[p].completed, procs[p].id)
     IN procs' = [procs EXCEPT ![p].pc = IF procs[p].pc = "responded"
                                         THEN "took1" ELSE "took2",
                               ![p].completed = t.completed,
                               ![p].takes = Append(@, t.out)]
  /\ UNCHANGED <<qfPending, qfResponses>>
  /\ QueueFrame

\* wait_for_response, head of the loop: take_response, then load_queue_file.
\* The hook waits after its enqueue; the test process may wait on its own
\* DecisionQueue after its respond.
WaitLoad(p) ==
  /\ \/ p \in {"hook", "hook2"} /\ procs[p].pc \in {"enqueued", "w_poll"}
     \/ p = "test" /\ procs[p].pc = "responded"
  /\ LET t == take_response(procs[p].completed, procs[p].id)
     IN procs' = IF IsSome(t.out)
                 THEN [procs EXCEPT ![p].pc = "returned",
                                    ![p].polls = @ + 1,
                                    ![p].completed = t.completed,
                                    ![p].result = WaitResult("ok", t.out)]
                 ELSE [procs EXCEPT ![p].pc = "w_check",
                                    ![p].polls = @ + 1,
                                    ![p].snap = Some(load_queue_file)]
  /\ UNCHANGED <<qfPending, qfResponses>>
  /\ QueueFrame

\* Variant of DeadlinePassed: the deadline itself is still in time.
DeadlinePassedStrict(p) == procs[p].elapsed > procs[p].timeout

\* start.elapsed() >= timeout, both counted in sleeps of 200 ms.
DeadlinePassed(p) == procs[p].elapsed >= procs[p].timeout

\* wait_for_response, rest of the loop body: a response found in `state`
\* is removed and the file saved; else on timeout pending.remove and
\* load_queue_file; else the sleep of 200 ms.
WaitCheck(p) ==
  /\ procs[p].pc = "w_check"
  /\ LET state == Unwrap(procs[p].snap)
         id == procs[p].id
     IN IF id \in DOMAIN state.responses
        THEN /\ save_queue_file([pending |-> MapRemove(state.pending, id),
                                 responses |-> MapRemove(state.responses, id)])
             /\ procs' = [procs EXCEPT ![p].pc = "returned",
                                       ![p].snap = None,
                                       ![p].pending = MapRemove(@, id),
                                       ![p].result = WaitResult("ok", Some(state.responses[id]))]
        ELSE IF DeadlinePassed(p)
        THEN /\ procs' = [procs EXCEPT ![p].pc = "t_save",
                                       ![p].pending = MapRemove(@, id),
                                       ![p].snap = Some(load_queue_file)]
             /\ UNCHANGED <<qfPending, qfResponses>>
        ELSE /\ procs' = [procs EXCEPT ![p].pc = "w_poll",
                                       ![p].snap = None,
                                       ![p].elapsed = @ + 1]
             /\ UNCHANGED <<qfPending, qfResponses>>
  /\ QueueFrame

\* wait_for_response on timeout: state.pending.remove, save_queue_file,
\* return of Err(HumanTimeout).
TimeoutSave(p) ==
  /\ procs[p].pc = "t_save"
  /\ LET state == Unwrap(procs[p].snap)
     IN save_queue_file([state EXCEPT !.pending = MapRemove(@, procs[p].id)])
  /\ procs' = [procs EXCEPT ![p].pc = "returned",
                            ![p].snap = None,
                            ![p].result = WaitResult("HumanTimeout", None)]
  /\ QueueFrame

QueueNext ==
  \/ \E p \in QueueProcs : EnqueueLoad(p)
  \/ \E p \in QueueProcs : EnqueueSave(p)
  \/ \E p \in QueueProcs, response \in HumanResponses \cup {TestResponse} :
       RespondLoad(p, response)
  \/ \E p \in QueueProcs : RespondSave(p)
  \/ \E p \in QueueProcs : TakeResponse(p)
  \/ \E p \in QueueProcs : WaitLoad(p)
  \/ \E p \in QueueProcs : WaitCheck(p)
  \/ \E p \in QueueProcs : TimeoutSave(p)

SpecQueue == QueueInit /\ [][QueueNext]_vars

\* ------------------------------------------------------------------------
\* Two hook processes that reach the human tier, and the operator
\* ------------------------------------------------------------------------
IdsProcs == {"hook", "hook2", "op"}

\* format!("{}-{}-{}", role_name, input.tool_name, Utc::now().timestamp_millis())
HumanTierId(role, tool_name, millis) == <<role, tool_name, millis>>

\* Each hook process evaluates a call of the role coder at some millisecond;
\* the operator answers the request of the first one.
IdsInit ==
  /\ session = CoderSession
  /\ humanKind = "queue"
  /\ store = <<>>
  /\ exactCache = EmptyMap
  /\ tokenIndex = <<>>
  /\ embedIndex = <<>>
  /\ qfPending = EmptyMap
  /\ qfResponses = EmptyMap
  /\ memPending = EmptyMap
  /\ memCompleted = EmptyMap
  /\ pc = "idle"
  /\ cur = NoCur
  /\ elapsed = 0
  /\ hist = <<>>
  /\ pp = PpIdle
  /\ sv = SvIdle
  /\ hr = HrIdle
  /\ \E t1 \in {"Bash", "Write"}, t2 \in {"Bash", "Write"},
        m1 \in 1..MaxMillis, m2 \in 1..MaxMillis :
       procs = [p \in IdsProcs |->
                  [ProcInit(p) EXCEPT !.id =
                     IF p = "hook2"
                     THEN HumanTierId(role_name(session), t2, m2)
                     ELSE HumanTierId(role_name(session), t1, m1)]]
  /\ ck = CkIdle
  /\ app = AppIdle

IdsNext ==
  \/ \E p \in IdsProcs : EnqueueLoad(p)
  \/ \E p \in IdsProcs : EnqueueSave(p)
  \/ \E p \in IdsProcs, response \in HumanResponses : RespondLoad(p, response)
  \/ \E p \in IdsProcs : RespondSave(p)
  \/ \E p \in IdsProcs : WaitLoad(p)
  \/ \E p \in IdsProcs : WaitCheck(p)
  \/ \E p \in IdsProcs : TimeoutSave(p)

SpecIds == IdsInit /\ [][IdsNext]_vars

\* ------------------------------------------------------------------------
\* wait_for_response for every timeout, whatever the other users of the
\* queue file and of the DecisionQueue do
\* ------------------------------------------------------------------------
\* The states of the queue file other processes can write.
WaitFileStates ==
  [pending : UNION {[ids -> {QueuePending(QueueId("hook"))}] :
                      ids \in SUBSET {QueueId("hook")}},
   responses : UNION {[ids -> HumanResponses] : ids \in SUBSET {QueueId("hook")}}]

WaitInit ==
  /\ session = CoderSession
  /\ humanKind = "queue"
  /\ store = <<>>
  /\ exactCache = EmptyMap
  /\ tokenIndex = <<>>
  /\ embedIndex = <<>>
  /\ qfPending = EmptyMap
  /\ qfResponses = EmptyMap
  /\ memPending = EmptyMap
  /\ memCompleted = EmptyMap
  /\ pc = "idle"
  /\ cur = NoCur
  /\ elapsed = 0
  /\ hist = <<>>
  /\ pp = PpIdle
  /\ sv = SvIdle
  /\ hr = HrIdle
  /\ \E t \in 0..MaxWait :
       procs = [p \in {"hook"} |-> [ProcInit(p) EXCEPT !.timeout = t]]
  /\ ck = CkIdle
  /\ app = AppIdle

\* The steps of the hook process: HumanTier::evaluate calls enqueue and
\* then wait_for_response.
WaitStep ==
  \/ EnqueueLoad("hook")
  \/ EnqueueSave("hook")
  \/ WaitLoad("hook")
  \/ WaitCheck("hook")
  \/ TimeoutSave("hook")

\* Another process saves the queue file, with any content.
OtherSave(state) ==
  /\ state \in WaitFileStates
  /\ save_queue_file(state)
  /\ UNCHANGED procs
  /\ QueueFrame

\* Another task calls respond on the DecisionQueue of the hook process:
\* the in-memory part of respond (the file part is an OtherSave).
OtherRespond(response) ==
  /\ procs["hook"].pc # "returned"
  /\ procs' = [procs EXCEPT !["hook"].pending = MapRemove(@, procs["hook"].id),
                            !["hook"].completed = MapPut(@, procs["hook"].id, response)]
  /\ UNCHANGED <<qfPending, qfResponses>>
  /\ QueueFrame

WaitNext ==
  \/ WaitStep
  \/ \E state \in WaitFileStates : OtherSave(state)
  \/ \E response \in HumanResponses : OtherRespond(response)

SpecWait == WaitInit /\ [][WaitNext]_vars /\ WF_vars(WaitStep)

\* ------------------------------------------------------------------------
\* load_queue_file over the contents the queue file can have
\* ------------------------------------------------------------------------
\* QueueFileState::default(): no pending entries, no responses.
QueueFileStateDefault == [pending |-> EmptyMap, responses |-> EmptyMap]

\* The file: missing, unreadable, or a JSON text.  A text is an object with
\* the members "pending" and "responses", each one optional, and is cut
\* when a write stopped before its end.
QueueMaps(values) ==
  UNION {[ids -> values] : ids \in SUBSET {QueueId("hook"), QueueId("test")}}

QueueTexts ==
  [pending : {None} \cup {Some(m) : m \in QueueMaps({"pending"})},
   responses : {None} \cup {Some(m) : m \in QueueMaps({"allow", "deny"})},
   cut : BOOLEAN]

QueueFiles ==
  {[kind |-> "missing"], [kind |-> "unreadable"]}
  \cup {[kind |-> "text", text |-> t] : t \in QueueTexts}

\* std::fs::read_to_string: the text, or an error.
read_to_string(file) ==
  IF file.kind = "text" THEN [ok |-> TRUE, value |-> file.text] ELSE [ok |-> FALSE]

\* Variant of from_str: a member that is missing reads as an empty map.
from_strMissingIsEmpty(text) ==
  IF text.cut THEN [ok |-> FALSE]
  ELSE [ok |-> TRUE,
        value |-> [pending |-> IF IsSome(text.pending)
                               THEN Unwrap(text.pending) ELSE EmptyMap,
                   responses |-> IF IsSome(text.responses)
                                 THEN Unwrap(text.responses) ELSE EmptyMap]]

\* serde_json::from_str::<QueueFileState>: both members are required (the
\* fields carry no serde default) and the text must be whole.
from_str(text) ==
  IF text.cut \/ text.pending = None \/ text.responses = None
  THEN [ok |-> FALSE]
  ELSE [ok |-> TRUE,
        value |-> [pending |-> Unwrap(text.pending),
                   responses |-> Unwrap(text.responses)]]

\* load_queue_file on a given file: unwrap_or_default on the parse, the
\* default on a read error.
load_queue_file_from(file) ==
  LET contents == read_to_string(file)
  IN IF contents.ok
     THEN LET parsed == from_str(contents.value)
          IN IF parsed.ok THEN parsed.value ELSE QueueFileStateDefault
     ELSE QueueFileStateDefault

QueueFileInit ==
  /\ CascadeInit
  /\ session = CoderSession /\ humanKind = "queue" /\ store = <<>>
  /\ pp = PpIdle /\ sv = SvIdle /\ hr = HrIdle /\ procs = NoProcs /\ ck = CkIdle
  /\ \E f \in QueueFiles : app = [stage |-> "file", file |-> f, loaded |-> None]

QueueFileLoad ==
  /\ app.stage = "file"
  /\ app' = [app EXCEPT !.stage = "loaded",
                        !.loaded = Some(load_queue_file_from(app.file))]
  /\ UNCHANGED <<cascadeVars, pp, sv, hr, procs, ck>>

QueueFileNext == QueueFileLoad

SpecQueueFile == QueueFileInit /\ [][QueueFileNext]_vars

Next ==
  \/ \E call \in Calls, outcome \in SupervisorOutcomes : Evaluate(call, outcome)
  \/ \E response \in HumanResponses : OperatorRespond(response)
  \/ WaitPoll

Spec == Init /\ [][Next]_vars

\* ------------------------------------------------------------------------
\* Stand-alone applications of the sanitizer
\* ------------------------------------------------------------------------
\* Length of the raw strings the sanitizer is applied to.
MaxAtoms == 3

RawAtoms == {SecretA, "git", Blank, WideBlank, "pid=4242", Redacted}

RawStrings == UNION {[1..n -> RawAtoms] : n \in 0..MaxAtoms}

SanitizeInit ==
  /\ CascadeInit
  /\ session = CoderSession /\ humanKind = "noop" /\ store = <<>>
  /\ pp = PpIdle /\ sv = SvIdle /\ hr = HrIdle /\ procs = NoProcs /\ ck = CkIdle
  /\ \E raw \in RawStrings : app = [stage |-> "raw", texts |-> <<raw>>]

\* sanitize applied to the text obtained last.
SanitizeApply ==
  /\ app.stage \in {"raw", "once"}
  /\ app' = [stage |-> IF app.stage = "raw" THEN "once" ELSE "twice",
             texts |-> Append(app.texts, sanitize(app.texts[Len(app.texts)]))]
  /\ UNCHANGED <<cascadeVars, pp, sv, hr, procs, ck>>

SanitizeNext == SanitizeApply

SpecSanitize == SanitizeInit /\ [][SanitizeNext]_vars

\* ------------------------------------------------------------------------
\* Stand-alone applications of merge_decisions
\* ------------------------------------------------------------------------
\* ScopeLevel order: org > project > user > role.
ScopeRank(scope) ==
  CASE scope = "org" -> 3 [] scope = "project" -> 2
    [] scope = "user" -> 1 [] scope = "role" -> 0

ScopedDecision(decision, scope) == [decision |-> decision, scope |-> scope]

\* Variant of MoreRestrictive: equally restrictive decisions keep the first.
MoreRestrictiveNoTieBreak(d, best) ==
  precedence(d.decision) > precedence(best.decision)

\* d replaces best: more restrictive, or as restrictive at a higher scope.
MoreRestrictive(d, best) ==
  \/ precedence(d.decision) > precedence(best.decision)
  \/ /\ precedence(d.decision) = precedence(best.decision)
     /\ ScopeRank(d.scope) > ScopeRank(best.scope)

\* merge_decisions: None for no decision, else the one kept by a pass over
\* the decisions in their order.
RECURSIVE MergeFrom(_, _)
MergeFrom(decisions, best) ==
  IF decisions = <<>> THEN best
  ELSE MergeFrom(Tail(decisions),
                 IF MoreRestrictive(Head(decisions), best)
                 THEN Head(decisions) ELSE best)

merge_decisions(decisions) ==
  IF decisions = <<>> THEN None
  ELSE Some(MergeFrom(Tail(decisions), Head(decisions)))

\* Decisions for one key, one per scope, in any order.
MergeInputs ==
  {ds \in UNION {[1..n -> {ScopedDecision(d, sc) : d \in Decisions, sc \in ScopeLevels}]
                 : n \in 0..Cardinality(ScopeLevels)} :
     \A i, j \in DOMAIN ds : i # j => ds[i].scope # ds[j].scope}

MergeInit ==
  /\ CascadeInit
  /\ session = CoderSession /\ humanKind = "noop" /\ store = <<>>
  /\ pp = PpIdle /\ sv = SvIdle /\ hr = HrIdle /\ procs = NoProcs /\ ck = CkIdle
  /\ \E ds \in MergeInputs : app = [stage |-> "in", decisions |-> ds, result |-> None]

MergeApply ==
  /\ app.stage = "in"
  /\ app' = [app EXCEPT !.stage = "merged", !.result = merge_decisions(app.decisions)]
  /\ UNCHANGED <<cascadeVars, pp, sv, hr, procs, ck>>

MergeNext == MergeApply

SpecMerge == MergeInit /\ [][MergeNext]_vars

\* ------------------------------------------------------------------------
\* Loading roles.yml: categories and the expansion of {{category}} macros
\* ------------------------------------------------------------------------
\* default_categories(): the built-in category map.
default_categories ==
  [name \in {"source", "tests", "docs", "ci", "infra", "config_files", "devops",
             "test_config", "research_output", "architecture_output",
             "plans_output", "reviews_output", "security_reviews_output",
             "docs_output"} |->
     CASE name = "source" -> <<"src/**", "lib/**">>
       [] name = "tests" -> <<"tests/**", "test-fixtures/**", "*.test.*", "*.spec.*",
                              "*_test.go", "test_*.py", "**/test_*.py", "**/*_test.go">>
       [] name = "docs" -> <<"docs/**">>
       [] name = "ci" -> <<".github/**", ".gitlab-ci.yml", ".circleci/**",
                           "Jenkinsfile", ".buildkite/**">>
       [] name = "infra" -> <<"*.tf", "*.tfvars", "*.hcl", "terraform/**", "infra/**",
                              "pulumi/**", "cdk/**", "cloudformation/**", "ansible/**",
                              "helm/**", ".terraform.lock.hcl">>
       [] name = "config_files" -> <<"Cargo.toml", "Cargo.lock", "package.json",
                                     "package-lock.json", "go.mod", "go.sum",
                                     "pyproject.toml", "requirements*.txt">>
       [] name = "devops" -> <<"Dockerfile*", "docker-compose*", ".dockerignore",
                               "Makefile", ".eslintrc*", ".prettierrc*", ".editorconfig",
                               "tsconfig*", ".*rc", ".*rc.*", ".tool-versions", ".nvmrc",
                               ".python-version", ".ruby-version", "rust-toolchain.toml",
                               "lefthook.yml", ".husky/**", ".pre-commit-config.yaml">>
       [] name = "test_config" -> <<"jest.config.*", "pytest.ini", "vitest.config.*",
                                    ".coveragerc", "codecov.yml">>
       [] name = "research_output" -> <<"docs/research/**">>
       [] name = "architecture_output" -> <<"docs/architecture/**", "docs/adr/**">>
       [] name = "plans_output" -> <<"docs/plans/**">>
       [] name = "reviews_output" -> <<"docs/reviews/**">>
       [] name = "security_reviews_output" -> <<"docs/reviews/security/**">>
       [] name = "docs_output" -> <<"docs/**", "*.md", "*.aisp", "CHANGELOG.md", "LICENSE">>]

\* macro_regex().captures(pattern): the name captured by
\* ^\{\{([a-z][a-z0-9_]*)\}\}$ in each pattern of the model, None where the
\* pattern does not match (an upper-case name, a macro inside a longer glob).
macro_captures(pattern) ==
  CASE pattern = "{{source}}" -> Some("source")
    [] pattern = "{{docs}}" -> Some("docs")
    [] pattern = "{{mine}}" -> Some("mine")
    [] pattern = "{{nonexistent_category}}" -> Some("nonexistent_category")
    [] OTHER -> None

ConfigParse(role, name) ==
  [ok |-> FALSE, error |-> "ConfigParse", role |-> role, category |-> name]

\* expand_macros: Ok(expanded) or the error of the first unknown category.
RECURSIVE expand_macros_from(_, _, _, _)
expand_macros_from(patterns, categories, role, expanded) ==
  IF patterns = <<>> THEN [ok |-> TRUE, value |-> expanded]
  ELSE LET caps == macro_captures(Head(patterns))
       IN IF IsSome(caps)
          THEN IF Unwrap(caps) \in DOMAIN categories
               THEN expand_macros_from(Tail(patterns), categories, role,
                                       expanded \o categories[Unwrap(caps)])
               ELSE ConfigParse(role, Unwrap(caps))
          ELSE expand_macros_from(Tail(patterns), categories, role,
                                  Append(expanded, Head(patterns)))

expand_macros(patterns, categories, role) ==
  expand_macros_from(patterns, categories, role, <<>>)

\* Variant of merged_categories: a built-in category keeps its globs.
merged_categoriesDefaultsWin(categories) ==
  [name \in DOMAIN default_categories \cup DOMAIN categories |->
     IF name \in DOMAIN default_categories THEN default_categories[name]
     ELSE categories[name]]

\* merged_categories: the user's categories inserted over the defaults.
merged_categories(categories) ==
  [name \in DOMAIN default_categories \cup DOMAIN categories |->
     IF name \in DOMAIN categories THEN categories[name]
     ELSE default_categories[name]]

\* The three expansions of one role, in the order of expand_categories:
\* the first error ends them.
ExpandRole(role, paths, merged) ==
  LET aw == expand_macros(paths.allow_write, merged, role)
      dw == expand_macros(paths.deny_write, merged, role)
      ar == expand_macros(paths.allow_read, merged, role)
  IN IF ~aw.ok THEN aw
     ELSE IF ~dw.ok THEN dw
     ELSE IF ~ar.ok THEN ar
     ELSE [ok |-> TRUE,
           value |-> [allow_write |-> aw.value, deny_write |-> dw.value,
                      allow_read |-> ar.value]]

\* RolesConfig::load_from on a parsed file: the results expand_categories
\* can give.  The roles are visited in the order of a HashMap, so the error
\* returned is that of any role that has one.
RolesLoadResults(config) ==
  LET merged == merged_categories(config.categories)
      done == [r \in DOMAIN config.roles |-> ExpandRole(r, config.roles[r], merged)]
      failed == {r \in DOMAIN done : ~done[r].ok}
  IN IF failed # {}
     THEN {[result |-> "Err", error |-> Some(done[r]), config |-> None] : r \in failed}
     ELSE {[result |-> "Ok", error |-> None,
            config |-> Some([categories |-> merged,
                             roles |-> [r \in DOMAIN done |-> done[r].value]])]}

\* The categories sections and the glob lists of the roles files loaded.
UserCategories ==
  {EmptyMap,
   [name \in {"source"} |-> <<"app/**", "services/**">>],
   [name \in {"mine"} |-> <<"mine/**">>],
   [name \in {"mine"} |-> <<"{{source}}", "mine/**">>]}

RolePatterns ==
  {"{{source}}", "{{mine}}", "{{nonexistent_category}}", "{{Source}}",
   "{{source}}/gen/**", "custom-dir/**"}

RolePaths ==
  [allow_write : UNION {[1..n -> RolePatterns] : n \in 0..2},
   deny_write : {<<>>, <<"{{docs}}">>, <<"{{nonexistent_category}}">>},
   allow_read : {<<"**">>, <<"{{mine}}">>}]

OtherRolePaths ==
  [allow_write : {<<"{{source}}">>, <<"{{nonexistent_category}}">>},
   deny_write : {<<>>},
   allow_read : {<<"**">>}]

RolesFiles ==
  {[categories |-> c, roles |-> [r \in {"coder"} |-> p]] :
     c \in UserCategories, p \in RolePaths}
  \cup
  {[categories |-> c,
    roles |-> [r \in {"coder", "bad"} |-> IF r = "coder" THEN p ELSE q]] :
     c \in UserCategories, p \in RolePaths, q \in OtherRolePaths}

RolesInit ==
  /\ CascadeInit
  /\ session = CoderSession /\ humanKind = "noop" /\ store = <<>>
  /\ pp = PpIdle /\ sv = SvIdle /\ hr = HrIdle /\ procs = NoProcs /\ ck = CkIdle
  /\ \E f \in RolesFiles : app = [stage |-> "file", file |-> f, loaded |-> None]

\* RolesConfig::load_from after the YAML is parsed: expand_categories.
RolesLoad ==
  /\ app.stage = "file"
  /\ \E r \in RolesLoadResults(app.file) :
       app' = [app EXCEPT !.stage = "loaded", !.loaded = Some(r)]
  /\ UNCHANGED <<cascadeVars, pp, sv, hr, procs, ck>>

RolesNext == RolesLoad

SpecRoles == RolesInit /\ [][RolesNext]_vars

\* ------------------------------------------------------------------------
\* The cascade on tool inputs that contain a recognised secret
\* ------------------------------------------------------------------------
\* A secret as an argument of a command, as the content of a file, and as
\* a component of the path of a file inside and outside the role's globs.
SecretCalls ==
  {Call("Bash", BashInput(CmdPushA), None),
   Call("Write", FileInput(SrcMain, SecretB), None),
   Call("Write", FileInput(<<"src", SecretA>>, "x"), None),
   Call("Write", FileInput(<<"notes", SecretA>>, "x"), None)}

SecretNext ==
  \/ \E call \in SecretCalls, outcome \in SupervisorOutcomes : Evaluate(call, outcome)
  \/ \E response \in HumanResponses : OperatorRespond(response)
  \/ WaitPoll

SpecSecret == Init /\ [][SecretNext]_vars

\* ------------------------------------------------------------------------
\* The check command (cli/check.rs run, called by main through dispatch)
\* ------------------------------------------------------------------------
HookFormats == {"claude", "gemini"}

\* The fallible calls of run before the cascade, in the order run makes
\* them; "none": all of them succeed.
StartupCalls == <<"read_hook_input", "load_project", "wait_for_registration",
                  "get_or_populate", "load_decisions", "PathPolicyEngine::new">>

\* HookOutput::new / GeminiHookOutput::new: the object serialized to stdout.
HookOutput(decision, format) ==
  IF format = "claude"
  THEN [form |-> "hookSpecificOutput.permissionDecision", decision |-> decision]
  ELSE [form |-> "decision", decision |-> decision]

\* Variant of write_hook_output: the object is written and not flushed.
write_hook_outputNoFlush(out, decision, format) ==
  [written |-> Append(out.written, HookOutput(decision, format)),
   flushed |-> out.flushed]

\* write_hook_output: serde_json::to_writer, then handle.flush().
write_hook_output(out, decision, format) ==
  [written |-> Append(out.written, HookOutput(decision, format)),
   flushed |-> Len(out.written) + 1]

\* deny_exit_code of hook_io.rs; run does not call it.
deny_exit_code(format) == IF format = "claude" THEN 1 ELSE 2

\* The exit status of the process: run returned Ok(()) to main, run
\* returned Err (main returns the error), or std::process::exit(1).
ExitCode(how) == CASE how = "Ok" -> 0 [] how = "Err" -> 1 [] how = "exit(1)" -> 1

\* One invocation of the hook: the format flag, the state of the session
\* named by the input, and the call of run that fails, if any.
CheckInit ==
  /\ session \in Sessions
  /\ humanKind = "queue"
  /\ store \in {<<>>, <<StoredRecord(session)>>}
  /\ exactCache = load_from(store)
  /\ tokenIndex = store
  /\ embedIndex = store
  /\ qfPending = EmptyMap
  /\ qfResponses = EmptyMap
  /\ memPending = EmptyMap
  /\ memCompleted = EmptyMap
  /\ pc = "idle"
  /\ cur = NoCur
  /\ elapsed = 0
  /\ hist = <<>>
  /\ pp = PpIdle /\ sv = SvIdle /\ hr = HrIdle /\ procs = NoProcs /\ app = AppIdle
  /\ \E format \in HookFormats, disabled \in BOOLEAN, registered \in BOOLEAN,
        fails \in Range(StartupCalls) \cup {"none"} :
       ck = [stage |-> "start", format |-> format, disabled |-> disabled,
             registered |-> registered, fails |-> fails, stored |-> store,
             waited |-> FALSE, out |-> [written |-> <<>>, flushed |-> 0],
             how |-> None, exit |-> None]

\* run returns or exits with `how`, having written `out`.
CkLeave(how, out, waited) ==
  ck' = [ck EXCEPT !.stage = "leaving", !.how = Some(how), !.out = out,
                   !.waited = waited]

\* run from its first line to the construction of the runner.
CkStartup ==
  /\ ck.stage = "start"
  /\ LET waits == ~ck.registered
     IN IF ck.fails \in {"read_hook_input", "load_project"}
        THEN CkLeave("Err", ck.out, FALSE)
        ELSE IF ck.disabled
        THEN CkLeave("Ok", write_hook_output(ck.out, "allow", ck.format), FALSE)
        ELSE IF waits /\ ck.fails = "wait_for_registration"
        THEN CkLeave("Err", ck.out, TRUE)
        ELSE IF ck.fails = "get_or_populate"
        THEN CkLeave("Err", ck.out, waits)
        ELSE IF ~IsSome(session.role)
        THEN CkLeave("Ok", write_hook_output(ck.out, "deny", ck.format), waits)
        ELSE IF ck.fails \in {"load_decisions", "PathPolicyEngine::new"}
        THEN CkLeave("Err", ck.out, waits)
        ELSE ck' = [ck EXCEPT !.stage = "cascade", !.waited = waits]
  /\ UNCHANGED <<cascadeVars, pp, sv, hr, procs, app>>

\* runner.evaluate_with_cwd(...).await: the one evaluation of the process.
CkCascade ==
  /\ ck.stage = "cascade"
  /\ hist = <<>>
  /\ Next

\* The match on the result of the cascade and step 6, up to the exit.
CkOutput ==
  /\ ck.stage = "cascade"
  /\ Len(hist) = 1
  /\ pc = "idle"
  /\ IF hist[1].status = "ok"
     THEN LET decision == Unwrap(hist[1].record).decision
          IN CkLeave(IF decision = "deny" THEN "exit(1)" ELSE "Ok",
                     write_hook_output(ck.out, decision, ck.format), ck.waited)
     ELSE CkLeave("exit(1)", write_hook_output(ck.out, "deny", ck.format),
                  ck.waited)
  /\ UNCHANGED <<cascadeVars, pp, sv, hr, procs, app>>

\* The process terminates: std::process::exit, or main returns.
CkExit ==
  /\ ck.stage = "leaving"
  /\ ck' = [ck EXCEPT !.stage = "exited",
                      !.exit = Some(ExitCode(Unwrap(ck.how)))]
  /\ UNCHANGED <<cascadeVars, pp, sv, hr, procs, app>>

CheckNext == CkStartup \/ CkCascade \/ CkOutput \/ CkExit

SpecCheck == CheckInit /\ [][CheckNext]_vars

\* ------------------------------------------------------------------------
\* Properties of the path-policy tier (checked under SpecPolicy)
\* ------------------------------------------------------------------------
PpDone == pp.stage = "out"
PpPolicy == Unwrap(pp.input.session.path_policy)
\* The relativized paths the tier looks at.
PpPaths ==
  LET raw == extract_paths(pp.input.tool_name, pp.input)
  IN [i \in DOMAIN raw |-> relativize(raw[i], pp.input.cwd)]
PpOneVerdict == PpDone /\ IsSome(pp.input.session.path_policy) /\ Len(PpPaths) = 1
\* The decision the tier reported, None when it fell through.
PpDecision == IF IsSome(pp.out) THEN Some(Unwrap(pp.out).decision) ELSE None

ReadLikeTools == {"Read", "Glob", "Grep"}

\* C3: for a write-like tool the verdict of a single path is ask if it
\* matches sensitive_ask_write, else deny if it matches deny_write, else
\* allow if it matches allow_write, else none (fall through).
C3_WriteVerdictOrder ==
  (PpOneVerdict /\ pp.input.tool_name \notin ReadLikeTools) =>
    LET p == PpPaths[1]
    IN PpDecision =
         IF is_match(PpPolicy.sensitive_ask_write, p) THEN Some("ask")
         ELSE IF is_match(PpPolicy.deny_write, p) THEN Some("deny")
         ELSE IF is_match(PpPolicy.allow_write, p) THEN Some("allow")
         ELSE None

\* A write whose path matches both sensitive_ask_write and deny_write got ask.
C3_Witness ==
  /\ PpOneVerdict
  /\ pp.input.tool_name = "Write"
  /\ is_match(PpPolicy.sensitive_ask_write, PpPaths[1])
  /\ is_match(PpPolicy.deny_write, PpPaths[1])
  /\ PpDecision = Some("ask")

\* C4: for a read-like tool the verdict of a single path is ask if it
\* matches sensitive_ask_write, else none if it matches allow_read, else
\* deny; deny_write and allow_write play no part.
C4_ReadVerdictOrder ==
  (PpOneVerdict /\ pp.input.tool_name \in ReadLikeTools) =>
    LET p == PpPaths[1]
    IN PpDecision =
         IF is_match(PpPolicy.sensitive_ask_write, p) THEN Some("ask")
         ELSE IF is_match(PpPolicy.allow_read, p) THEN None
         ELSE Some("deny")

\* A read of a path under deny_write and allow_read fell through.
C4_Witness ==
  /\ PpOneVerdict
  /\ pp.input.tool_name = "Read"
  /\ is_match(PpPolicy.deny_write, PpPaths[1])
  /\ ~ is_match(PpPolicy.allow_write, PpPaths[1])
  /\ is_match(PpPolicy.allow_read, PpPaths[1])
  /\ PpDecision = None

Restrictiveness(d) == IF d = "allow" THEN 0 ELSE IF d = "ask" THEN 1 ELSE 2

\* The verdicts of the extracted paths of the evaluated call.
PpVerdicts ==
  {Unwrap(v) : v \in {PathVerdict(PpPolicy, pp.input.tool_name, PpPaths[i]) :
                        i \in DOMAIN PpPaths} \ {None}}

\* C5: the decision the tier reports is the most restrictive
\* (allow < ask < deny) of the verdicts of the extracted paths.
C5_MostRestrictiveWins ==
  (PpDone /\ IsSome(pp.input.session.path_policy)) =>
    IF PpVerdicts = {} THEN PpDecision = None
    ELSE /\ IsSome(PpDecision)
         /\ Unwrap(PpDecision) \in PpVerdicts
         /\ \A d \in PpVerdicts : Restrictiveness(d) <= Restrictiveness(Unwrap(PpDecision))

\* Three paths with three different verdicts, the first in order not the worst.
C5_Witness ==
  /\ PpDone
  /\ IsSome(pp.input.session.path_policy)
  /\ Len(PpPaths) = 3
  /\ PpVerdicts = {"allow", "ask", "deny"}
  /\ PathVerdict(PpPolicy, pp.input.tool_name, PpPaths[1]) # Some("deny")
  /\ PpDecision = Some("deny")

\* ------------------------------------------------------------------------
\* Properties of the cascade runner (checked under Spec)
\* ------------------------------------------------------------------------
ExpectedOrder == <<"PathPolicy", "ExactCache", "TokenJaccard",
                   "EmbeddingSimilarity", "Supervisor", "Human">>

\* The CascadeInput of a remembered evaluation.
InputOf(e) == CascadeInput(session, e.call.tool_name, e.call.tool_input, e.call.cwd)

IsPrefixOfExpected(c) == Len(c) <= 6 /\ c = SubSeq(ExpectedOrder, 1, Len(c))

\* Every evaluation consulted a prefix of the tier order; one that a tier
\* resolved stopped at that tier, one that no tier resolved consulted all.
C1_Consulted ==
  /\ \A i \in DOMAIN hist :
       LET e == hist[i]
       IN /\ Len(e.consulted) >= 1
          /\ IsPrefixOfExpected(e.consulted)
          /\ IsSome(e.resolved_by) =>
               Unwrap(e.resolved_by) = e.consulted[Len(e.consulted)]
          /\ e.resolved_by = None => e.consulted = ExpectedOrder
  /\ pc = "waiting" =>
       /\ cur.consulted = ExpectedOrder
       /\ \A k \in 1..4 :
            TierEvaluate(ExpectedOrder[k], Unwrap(cur.input),
                         CHOOSE o \in SupervisorOutcomes : TRUE) = None

\* In the step that runs the loop, a consulted tier (of the four whose
\* answer depends on the runner only) returned a record exactly when it
\* is the last one consulted; the queue changes only at the human tier.
C1_Step ==
  /\ (pc = "idle" /\ Len(hist') = Len(hist) + 1) =>
       LET e == hist'[Len(hist')]
       IN /\ \A k \in 1..Len(e.consulted) :
               k <= 4 =>
                 (IsSome(TierEvaluate(ExpectedOrder[k], InputOf(e),
                                      CHOOSE o \in SupervisorOutcomes : TRUE))
                  <=> (k = Len(e.consulted) /\ e.resolved_by = Some(ExpectedOrder[k])))
          /\ qfPending' = qfPending /\ memPending' = memPending
  /\ (qfPending' # qfPending \/ memPending' # memPending) =>
       (pc = "waiting" \/ (pc' = "waiting" /\ cur'.consulted = ExpectedOrder))

\* C1: the tiers are consulted in the order path policy, exact cache,
\* token Jaccard, embedding similarity, supervisor, human; the first tier
\* that returns a record ends the cascade, no later tier is evaluated and
\* nothing is enqueued unless the human tier is reached.
C1_TierOrder == [](C1_Consulted) /\ [][C1_Step]_vars

\* The supervisor resolved a call while the queue-backed human tier was
\* configured: the human tier was not consulted and nothing is pending.
C1_Witness ==
  /\ humanKind = "queue"
  /\ pc = "idle"
  /\ Len(hist) >= 1
  /\ hist[Len(hist)].resolved_by = Some("Supervisor")
  /\ hist[Len(hist)].consulted = SubSeq(ExpectedOrder, 1, 5)
  /\ qfPending = EmptyMap

C6_Original ==
  \A i \in DOMAIN hist :
    LET e == hist[i]
    IN IsSome(e.cached) =>
         /\ e.status = "ok"
         /\ e.resolved_by = Some("ExactCache")
         /\ Unwrap(e.record).decision = Unwrap(e.cached)

\* C6 (amended): every call whose key is in the exact cache and on which
\* the path-policy tier falls through resolves at ExactCache with the
\* decision cached for the key.
C6_CachedKeyHits ==
  \A i \in DOMAIN hist :
    LET e == hist[i]
    IN (IsSome(e.cached) /\ PathPolicyEvaluate(InputOf(e), 0) = None) =>
         /\ e.status = "ok"
         /\ e.resolved_by = Some("ExactCache")
         /\ Unwrap(e.record).decision = Unwrap(e.cached)
         /\ Unwrap(e.record).key = e.key

\* A call with a cached key passed the path policy and hit the exact cache.
C6_Witness ==
  \E i \in DOMAIN hist :
    /\ IsSome(hist[i].cached)
    /\ IsSome(session.path_policy)
    /\ hist[i].call.tool_name = "Write"
    /\ hist[i].resolved_by = Some("ExactCache")

\* No evaluation between i and j wrote the exact-cache entry of key.
NoWriteBetween(i, j, key) ==
  \A m \in (i + 1)..(j - 1) :
    hist[m].key = key => hist[m].resolved_by = Some("ExactCache")

\* hist[j] repeats the call of hist[i] and hits the exact cache with the
\* decision of hist[i], consulting neither the supervisor nor the human.
RepeatHitsCache(i, j) ==
  /\ hist[j].status = "ok"
  /\ hist[j].resolved_by = Some("ExactCache")
  /\ Unwrap(hist[j].record).tier = "ExactCache"
  /\ Unwrap(hist[j].record).decision = Unwrap(hist[i].record).decision
  /\ "Supervisor" \notin Range(hist[j].consulted)
  /\ "Human" \notin Range(hist[j].consulted)

\* C7: after the supervisor tier resolved a call with decision d, an
\* identical call resolves at ExactCache with decision d, and neither the
\* supervisor nor the human tier is invoked again.
C7_SupervisorThenCache ==
  \A i \in DOMAIN hist : \A j \in DOMAIN hist :
    (/\ i < j
     /\ hist[i].resolved_by = Some("Supervisor")
     /\ hist[j].call = hist[i].call
     /\ NoWriteBetween(i, j, hist[i].key)) => RepeatHitsCache(i, j)

\* The same call twice: first resolved by the supervisor, then by the cache.
C7_Witness ==
  \E i \in DOMAIN hist : \E j \in DOMAIN hist :
    /\ i < j
    /\ hist[i].resolved_by = Some("Supervisor")
    /\ hist[j].call = hist[i].call
    /\ hist[j].resolved_by = Some("ExactCache")

\* C8: after the token-Jaccard or embedding tier resolved a call,
\* re-evaluating the same input resolves at ExactCache with the same decision.
C8_SimilarityThenCache ==
  \A i \in DOMAIN hist : \A j \in DOMAIN hist :
    (/\ i < j
     /\ hist[i].resolved_by \in {Some("TokenJaccard"), Some("EmbeddingSimilarity")}
     /\ hist[j].call = hist[i].call
     /\ NoWriteBetween(i, j, hist[i].key)) => RepeatHitsCache(i, j)

\* The same call twice: first resolved by a similarity tier, then by the cache.
C8_Witness ==
  \E i \in DOMAIN hist : \E j \in DOMAIN hist :
    /\ i < j
    /\ hist[i].resolved_by = Some("EmbeddingSimilarity")
    /\ hist[j].call = hist[i].call
    /\ hist[j].resolved_by = Some("ExactCache")

\* The step of an evaluation that returned a record.
C9_Step ==
  (Len(hist') = Len(hist) + 1 /\ hist'[Len(hist')].status = "ok") =>
    LET e == hist'[Len(hist')]
        r == Unwrap(e.record)
    IN /\ r.tier = "ExactCache" =>
            /\ store' = store
            /\ exactCache' = exactCache
            /\ tokenIndex' = tokenIndex
            /\ embedIndex' = embedIndex
       /\ r.tier \in {"TokenJaccard", "EmbeddingSimilarity"} =>
            /\ store' = store
            /\ tokenIndex' = tokenIndex
            /\ embedIndex' = embedIndex
            /\ exactCache' = MapPut(exactCache, r.key, r)
            /\ UNCHANGED <<qfPending, qfResponses, memPending, memCompleted>>

\* C9: a call resolved at ExactCache leaves the store and the three indices
\* unchanged; a call resolved at TokenJaccard or EmbeddingSimilarity changes
\* only the exact cache.
C9_PersistFrame == [][C9_Step]_vars

\* A similarity hit is in the exact cache and in no other index or store.
C9_Witness ==
  /\ Len(hist) >= 1
  /\ hist[Len(hist)].resolved_by = Some("TokenJaccard")
  /\ hist[Len(hist)].key \in DOMAIN exactCache
  /\ exactCache[hist[Len(hist)].key].tier = "TokenJaccard"
  /\ \A k \in DOMAIN store : store[k].key # hist[Len(hist)].key
  /\ \A k \in DOMAIN tokenIndex : tokenIndex[k].key # hist[Len(hist)].key

\* C10: two calls with the same CacheKey receive the same decision.
C10_SameKeySameDecision ==
  \A i \in DOMAIN hist : \A j \in DOMAIN hist :
    (/\ hist[i].status = "ok"
     /\ hist[j].status = "ok"
     /\ hist[i].key = hist[j].key) =>
      Unwrap(hist[i].record).decision = Unwrap(hist[j].record).decision

\* ------------------------------------------------------------------------
\* Properties of the supervisor tier (checked under SpecSupervisor)
\* ------------------------------------------------------------------------
\* The backend was invoked and SupervisorTier::evaluate has returned.
SvDone == sv.stage = "done" /\ IsSome(sv.outcome)
SvOutcome == Unwrap(sv.outcome)

\* The tiers the evaluation consulted and the tier that resolved it.
SupConsulted == IF pc = "waiting" THEN cur.consulted ELSE hist[Len(hist)].consulted
SupResolvedBy == IF pc = "waiting" THEN None ELSE hist[Len(hist)].resolved_by

\* The Supervisor records this evaluation wrote to the store or an index.
NewSupervisorRecords ==
  {r \in Range(store) \cup Range(tokenIndex) \cup Range(embedIndex)
         \cup {exactCache[k] : k \in DOMAIN exactCache} :
     r.tier = "Supervisor" /\ r.timestamp >= 1}

\* The tier fell through to the human tier and left nothing behind.
SupFellThrough ==
  /\ SupConsulted = ExpectedOrder
  /\ SupResolvedBy = None
  /\ NewSupervisorRecords = {}
  /\ humanKind = "queue" =>
       /\ pc = "waiting"
       /\ Unwrap(cur.id) \in DOMAIN qfPending
  /\ humanKind = "noop" =>
       /\ pc = "idle"
       /\ hist[Len(hist)].status = "ok"
       /\ Unwrap(hist[Len(hist)].record).tier = "Default"

\* C11: the supervisor tier resolves exactly when the backend's record has
\* confidence >= policy.confidence.project; below the threshold the tier
\* falls through, nothing is persisted for the supervisor's record and the
\* human tier is consulted next.
C11_ConfidenceGate ==
  SvDone =>
    /\ (SupResolvedBy = Some("Supervisor"))
         <=> (SvOutcome.kind = "ok" /\ SvOutcome.confidence >= ConfidenceProject)
    /\ (SvOutcome.kind = "ok" /\ SvOutcome.confidence < ConfidenceProject) =>
         SupFellThrough
    /\ SupResolvedBy = Some("Supervisor") =>
         /\ SupConsulted = SubSeq(ExpectedOrder, 1, 5)
         /\ Unwrap(hist[Len(hist)].record).confidence >= ConfidenceProject
         /\ Unwrap(hist[Len(hist)].record).decision = SvOutcome.decision
         /\ Unwrap(hist[Len(hist)].record) \in Range(store)

\* The backend answered allow just below the threshold: the call waits for
\* the human.
C11_Witness ==
  /\ SvDone
  /\ SvOutcome.kind = "ok"
  /\ SvOutcome.decision = "allow"
  /\ SvOutcome.confidence = ConfidenceProject - 1
  /\ pc = "waiting"
  /\ cur.consulted = ExpectedOrder

\* C12: every error of a supervisor backend (socket not found, IPC failure,
\* non-2xx status, malformed response, timeout) makes the supervisor tier
\* fall through; the evaluation goes on with the human tier.
C12_ErrorsFallThrough ==
  (SvDone /\ SvOutcome.kind = "err") =>
    /\ SvOutcome.error \in {"SocketNotFound", "Ipc", "Api", "Supervisor",
                            "SupervisorTimeout"}
    /\ SupFellThrough

\* The socket backend timed out and the call waits for the human.
C12_Witness ==
  /\ SvDone
  /\ SvOutcome.kind = "err"
  /\ SvOutcome.error = "SupervisorTimeout"
  /\ sv.clock >= timeout_secs
  /\ pc = "waiting"
  /\ cur.consulted = ExpectedOrder

\* C13: while a backend invocation is pending, no more than the configured
\* deadline has passed, for the socket backend and the API backend alike.
C13_DeadlineBounded ==
  sv.stage \in SocketAwaits \cup ApiAwaits => sv.clock <= timeout_secs

\* The part of C13 that the socket backend satisfies.
SocketDeadlineBounded ==
  sv.stage \in SocketAwaits => sv.clock <= timeout_secs

\* ------------------------------------------------------------------------
\* Properties of the human tier and its queue (checked under Spec)
\* ------------------------------------------------------------------------
\* The id the human tier gave to the pending decision of evaluation i.
IdOf(i) == <<role_name(session), hist[i].call.tool_name, i>>

\* No response for the waiting call is in the file or in memory.
NoResponse ==
  /\ Unwrap(cur.id) \notin DOMAIN qfResponses
  /\ Unwrap(cur.id) \notin DOMAIN memCompleted

\* An evaluation that ended with HumanTimeout returned no record and its id
\* is pending neither in memory nor in the file.
C14_TimedOut ==
  \A i \in DOMAIN hist :
    hist[i].status = "HumanTimeout" =>
      /\ hist[i].record = None
      /\ hist[i].consulted = ExpectedOrder
      /\ IdOf(i) \notin DOMAIN memPending
      /\ IdOf(i) \notin DOMAIN qfPending
      /\ \A k \in DOMAIN store : store[k].timestamp # i

\* A step of the waiting hook process (the file's responses are not
\* written): without a response it sleeps until timeout_secs have elapsed
\* and then returns HumanTimeout, having removed its id from both maps.
C14_Step ==
  (pc = "waiting" /\ NoResponse /\ qfResponses' = qfResponses) =>
    IF elapsed >= MaxWait
    THEN /\ pc' = "idle"
         /\ Len(hist') = Len(hist) + 1
         /\ hist'[Len(hist')].status = "HumanTimeout"
         /\ Unwrap(cur.id) \notin DOMAIN memPending'
         /\ Unwrap(cur.id) \notin DOMAIN qfPending'
         /\ UNCHANGED <<store, exactCache, tokenIndex, embedIndex>>
    ELSE /\ pc' = "waiting"
         /\ elapsed' = elapsed + 1
         /\ Unwrap(cur.id) \in DOMAIN memPending'
         /\ Unwrap(cur.id) \in DOMAIN qfPending'
         /\ hist' = hist

HrDone == hr.stage = "out"
HrRecord == Unwrap(hr.out)

\* C15: the decision of the human tier's record is ask whenever the
\* response has always_ask set, whatever the response's decision;
\* otherwise it is the response's decision.
C15_AlwaysAsk ==
  HrDone =>
    /\ hr.response.always_ask => HrRecord.decision = "ask"
    /\ ~hr.response.always_ask => HrRecord.decision = hr.response.decision
    /\ HrRecord.tier = "Human"

\* An approval with always_ask is recorded as ask.
C15_Witness ==
  /\ HrDone
  /\ hr.response.always_ask
  /\ hr.response.decision = "allow"
  /\ HrRecord.decision = "ask"

\* C16: for every HumanResponse the scope of the human tier's record is the
\* response's rule_scope if add_rule is set, and project if it is not.
C16_ScopeFollowsAddRule ==
  HrDone =>
    /\ hr.response.add_rule => hr.response.rule_scope = Some(HrRecord.scope)
    /\ ~hr.response.add_rule => HrRecord.scope = "project"

\* What the record's scope is: rule_scope when present, project otherwise,
\* whatever add_rule says.
ScopeFollowsRuleScope ==
  HrDone =>
    HrRecord.scope = IF IsSome(hr.response.rule_scope)
                     THEN Unwrap(hr.response.rule_scope) ELSE "project"

\* ------------------------------------------------------------------------
\* Properties of the shared queue file (checked under SpecQueue)
\* ------------------------------------------------------------------------
\* enqueue has returned in p and its wait, if any, has not returned.
EnqueueReturned(p) == procs[p].pc \in {"enqueued", "w_poll", "w_check"}

\* Some process has begun respond(id, _).
RespondBegun(id) ==
  \E q \in QueueProcs :
    /\ procs[q].id = id
    /\ procs[q].pc \in {"r_save", "responded", "took1", "took2"}

\* list_pending and get_pending of any DecisionQueue: they read the file.
ListedPending(id) ==
  /\ id \in DOMAIN load_queue_file.pending
  /\ load_queue_file.pending[id] = QueuePending(id)

\* C17: after enqueue(d) returned, d is listed by list_pending and returned
\* by get_pending(d.id) of every DecisionQueue reading the file, until d is
\* responded to or times out.
C17_ListedUntilResolved ==
  \A p \in {"hook", "test"} :
    (EnqueueReturned(p) /\ ~RespondBegun(procs[p].id)) =>
      ListedPending(procs[p].id)

\* The response a process passed to respond.
Responded(p) == procs[p].pc \in {"responded", "took1", "took2"}

\* After respond(id, r): the id is not pending in the DecisionQueue, the
\* first take_response gave r and the second gave nothing.
C18_Taken ==
  \A p \in {"test", "op"} :
    Responded(p) =>
      /\ procs[p].id \notin DOMAIN procs[p].pending
      /\ Len(procs[p].takes) >= 1 => procs[p].takes[1] = procs[p].response
      /\ Len(procs[p].takes) >= 2 => procs[p].takes[2] = None
      /\ procs[p].pc = "took2" => procs[p].id \notin DOMAIN procs[p].completed

\* The step in which respond returns: the file it wrote does not list the
\* id as pending and holds r under responses.
C18_Step ==
  \A p \in {"test", "op"} :
    (procs[p].pc = "r_save" /\ procs'[p].pc = "responded") =>
      /\ procs[p].id \notin DOMAIN qfPending'
      /\ procs[p].id \in DOMAIN qfResponses'
      /\ Some(qfResponses'[procs[p].id]) = procs[p].response

C19_BothEnqueued ==
  (/\ procs["hook"].pc = "enqueued"
   /\ procs["test"].pc = "enqueued"
   /\ procs["op"].pc = "idle") =>
    {procs["hook"].id, procs["test"].id} \subseteq DOMAIN qfPending

\* C20: when another process completed respond(X, r) while the hook process
\* was waiting on X before its deadline, the waiter does not return
\* HumanTimeout.
C20_AnsweredNotTimedOut ==
  procs["hook"].result.status = "HumanTimeout" => procs["hook"].answered = None

\* Without a third process writing the file, an answered waiter returns a
\* response.
AnsweredAlone ==
  (procs["test"].pc = "start" /\ procs["hook"].result.status = "HumanTimeout")
    => procs["hook"].answered = None

\* ------------------------------------------------------------------------
\* C21: once the waiter for pending id X has timed out and returned, X is
\* not listed as pending in the queue file again, whatever the other
\* processes' read-modify-write mutations of the file.  (SpecQueue)
\* ------------------------------------------------------------------------
TimedOutAndReturned(p) ==
  procs[p].pc = "returned" /\ procs[p].result.status = "HumanTimeout"

C21_TimedOutNeverRelisted ==
  procs # NoProcs =>
    \A p \in QueueProcs :
      TimedOutAndReturned(p) => ~ListedPending(procs[p].id)

\* The same with no other process writing the file after the waiter's load.
TimedOutUnlistedAtReturn ==
  [][(procs # NoProcs /\ procs["hook"].pc = "t_save"
      /\ procs'["hook"].pc = "returned")
     => QueueId("hook") \notin DOMAIN qfPending']_vars

\* ------------------------------------------------------------------------
\* Claims about the check command (SpecCheck)
\* ------------------------------------------------------------------------
CkRunning == ck.stage # "idle"
CkExited == CkRunning /\ ck.stage = "exited"

\* The cascade of this process returned an error.
CkCascadeFailed == CkRunning /\ Len(hist) = 1 /\ hist[1].status # "ok"

\* C22: when a tier returns an error (HumanTimeout), the cascade returns
\* it without consulting a later tier and without a Default record; the
\* check command then writes and flushes a deny output and only afterwards
\* exits with a non-zero code.
C22_Returned ==
  CkCascadeFailed =>
    /\ hist[1].record = None
    /\ hist[1].resolved_by = None
    /\ hist[1].consulted = TierOrder
    /\ store = ck.stored
    /\ \A k \in DOMAIN exactCache : exactCache[k].tier # "Default"
    /\ ck.stage = "exited" =>
         /\ ck.out.written = <<HookOutput("deny", ck.format)>>
         /\ ck.out.flushed = 1
         /\ Unwrap(ck.exit) # 0

\* The step that terminates the process finds the deny written and flushed.
C22_Step ==
  (CkCascadeFailed /\ ck.exit = None /\ ck'.exit # None) =>
    /\ ck.out.written = <<HookOutput("deny", ck.format)>>
    /\ ck.out.flushed = Len(ck.out.written)
    /\ ck'.out = ck.out

C23_ExitCodes ==
  (CkExited /\ ck.out.written # <<>>) =>
    LET decision == ck.out.written[1].decision
    IN Unwrap(ck.exit) = IF decision = "deny" THEN deny_exit_code(ck.format) ELSE 0

\* The part that holds: allow and ask exit 0, a deny returned by the
\* cascade or written for a cascade error exits 1.
ExitCodesOfCascade ==
  (CkExited /\ Len(hist) = 1) =>
    Unwrap(ck.exit) = IF ck.out.written[1].decision = "deny" THEN 1 ELSE 0

\* C24: every run writes exactly one well-formed decision object to stdout
\* before it terminates, also when policy loading, the wait for
\* registration, session lookup, runner construction or the cascade fails.
C24_OneDecisionObject ==
  CkExited =>
    /\ Len(ck.out.written) = 1
    /\ ck.out.flushed = 1
    /\ ck.out.written[1] \in {HookOutput(d, ck.format) : d \in Decisions}

\* Never more than one object, and one when run got as far as the session.
AtMostOneObject ==
  CkRunning =>
    /\ Len(ck.out.written) <= 1
    /\ (CkExited /\ Unwrap(ck.how) # "Err") => Len(ck.out.written) = 1

\* The input was read, so that it names a session.
CkSessionNamed == CkRunning /\ ck.fails # "read_hook_input"

\* Nothing of the cascade happened in this process.
CkNoCascade ==
  /\ hist = <<>>
  /\ pc = "idle"
  /\ qfPending = EmptyMap
  /\ memPending = EmptyMap
  /\ store = ck.stored
  /\ exactCache = load_from(ck.stored)

\* C25: for a session that is not disabled and has no role the command
\* emits deny immediately: no tier evaluated, nothing enqueued, nothing
\* persisted.
C25_NoRoleDenied ==
  (CkSessionNamed /\ ~ck.disabled /\ ~IsSome(session.role)) =>
    /\ CkNoCascade
    /\ ck.stage = "exited" =>
         ck.out.written = <<HookOutput("deny", ck.format)>>

\* The same for the runs in which no call before the role test fails.
NoRoleDeniedAfterLookup ==
  (CkSessionNamed /\ ~ck.disabled /\ ~IsSome(session.role)
   /\ ck.fails \notin {"load_project", "wait_for_registration", "get_or_populate"}) =>
    /\ CkNoCascade
    /\ ck.stage = "exited" =>
         ck.out.written = <<HookOutput("deny", ck.format)>>

\* C26: for a session marked disabled the command emits allow for every
\* tool call, without waiting for registration, without evaluating a tier
\* and without persisting anything.
C26_DisabledAllowed ==
  (CkSessionNamed /\ ck.disabled) =>
    /\ CkNoCascade
    /\ ~ck.waited
    /\ ck.stage = "exited" =>
         /\ ck.out.written = <<HookOutput("allow", ck.format)>>
         /\ ck.exit = Some(0)

\* The same for the runs in which the policy file loads.
DisabledAllowedAfterLoad ==
  (CkSessionNamed /\ ck.disabled /\ ck.fails # "load_project") =>
    /\ CkNoCascade
    /\ ~ck.waited
    /\ ck.stage = "exited" =>
         /\ ck.out.written = <<HookOutput("allow", ck.format)>>
         /\ ck.exit = Some(0)

\* ------------------------------------------------------------------------
\* Claims about secrets (SpecSecret)
\* ------------------------------------------------------------------------
HasSecret(text) == \E i \in DOMAIN text : text[i] \in Secrets
OptHasSecret(o) == IsSome(o) /\ HasSecret(Unwrap(o))

\* Every record the cascade has cached, indexed or persisted.
KeptRecords ==
  Range(store) \cup Range(tokenIndex) \cup Range(embedIndex)
  \cup {exactCache[k] : k \in DOMAIN exactCache}

\* Every PendingDecision in the queue file or in the DecisionQueue.
KeptPending ==
  {qfPending[k] : k \in DOMAIN qfPending} \cup {memPending[k] : k \in DOMAIN memPending}

\* C27: for a tool input containing a recognised secret token, no field of
\* a cached or persisted record (key.sanitized_input, file_path,
\* metadata.reason) and no field of the enqueued PendingDecision contains
\* the original token.
C27_NoSecretKept ==
  /\ \A r \in KeptRecords :
       /\ ~HasSecret(r.key.sanitized_input)
       /\ ~OptHasSecret(r.file_path)
       /\ ~HasSecret(r.reason)
  /\ \A d \in KeptPending :
       /\ ~HasSecret(d.sanitized_input)
       /\ ~OptHasSecret(d.file_path)

\* The part that holds: the fingerprints are redacted.
SanitizedInputsClean ==
  /\ \A r \in KeptRecords : ~HasSecret(r.key.sanitized_input)
  /\ \A d \in KeptPending : ~HasSecret(d.sanitized_input)
  /\ \A r \in KeptRecords :
       IsSome(r.matched_key) => ~HasSecret(Unwrap(r.matched_key).sanitized_input)

\* ------------------------------------------------------------------------
\* C28: the sanitizer is idempotent, sanitize(sanitize(x)) = sanitize(x):
\* the fingerprint of the CacheKey is a fixed point of sanitize, and it
\* holds no secret, no volatile field and no whitespace run.  (SpecSanitize)
\* ------------------------------------------------------------------------
C28_SanitizeIdempotent ==
  /\ app.stage = "twice" => app.texts[3] = app.texts[2]
  /\ app.stage \in {"once", "twice"} =>
       LET fp == app.texts[2]
       IN /\ \A i \in DOMAIN fp : fp[i] \notin Secrets \cup Volatile \cup {WideBlank}
          /\ \A i \in 1..(Len(fp) - 1) : ~(fp[i] = Blank /\ fp[i + 1] = Blank)

\* A raw string with a secret followed by a whitespace run.
C28_Witness ==
  /\ app.stage = "twice"
  /\ app.texts[1] = <<SecretA, WideBlank, Blank>>
  /\ app.texts[2] = <<Redacted, Blank>>
  /\ app.texts[3] = <<Redacted, Blank>>

\* ------------------------------------------------------------------------
\* C29: merge_decisions over the decisions for one key at several scopes
\* returns the most restrictive decision (allow < ask < deny) whatever the
\* order of its inputs; among equally restrictive decisions it returns the
\* one at the higher scope (org > project > user > role).  (SpecMerge)
\* ------------------------------------------------------------------------
C29_MostRestrictiveHighestScope ==
  (app.stage = "merged" /\ app.decisions # <<>>) =>
    /\ IsSome(app.result)
    /\ LET r == Unwrap(app.result)
           ds == Range(app.decisions)
       IN /\ r \in ds
          /\ \A d \in ds : Restrictiveness(d.decision) <= Restrictiveness(r.decision)
          /\ \A d \in ds :
               d.decision = r.decision => ScopeRank(d.scope) <= ScopeRank(r.scope)

\* Two denies and an allow, the deny at the lower scope first.
C29_Witness ==
  /\ app.stage = "merged"
  /\ app.decisions = <<ScopedDecision("deny", "user"), ScopedDecision("allow", "project"),
                       ScopedDecision("deny", "org")>>
  /\ app.result = Some(ScopedDecision("deny", "org"))

\* ------------------------------------------------------------------------
\* C30: loading a roles file in which a list of a role holds a {{name}}
\* token naming neither a built-in nor a user category fails with
\* ConfigParse and yields no configuration; otherwise every token is
\* replaced in place by the globs of its category, the user's category
\* standing for the built-in one of the same name, and every other pattern
\* passes through unchanged.  (SpecRoles)
\* ------------------------------------------------------------------------
PathLists == {"allow_write", "deny_write", "allow_read"}

\* The category a {{name}} token of the model names.
TokenName(pattern) ==
  CASE pattern = "{{source}}" -> "source"
    [] pattern = "{{docs}}" -> "docs"
    [] pattern = "{{mine}}" -> "mine"
    [] pattern = "{{nonexistent_category}}" -> "nonexistent_category"

Tokens == {"{{source}}", "{{docs}}", "{{mine}}", "{{nonexistent_category}}"}

\* The globs that stand for one pattern of a file.
ExpectedGlobs(file, pattern) ==
  IF pattern \in Tokens
  THEN IF TokenName(pattern) \in DOMAIN file.categories
       THEN file.categories[TokenName(pattern)]
       ELSE default_categories[TokenName(pattern)]
  ELSE <<pattern>>

ExpectedList(file, list) ==
  Flatten([i \in DOMAIN list |-> ExpectedGlobs(file, list[i])])

UnknownTokens(file) ==
  {<<r, l, i>> \in (DOMAIN file.roles) \X PathLists \X (1..2) :
     /\ i \in DOMAIN file.roles[r][l]
     /\ file.roles[r][l][i] \in Tokens
     /\ TokenName(file.roles[r][l][i]) \notin
          DOMAIN default_categories \cup DOMAIN file.categories}

C30_MacroExpansion ==
  app.stage = "loaded" =>
    LET file == app.file
        got == Unwrap(app.loaded)
    IN IF UnknownTokens(file) # {}
       THEN /\ got.result = "Err"
            /\ Unwrap(got.error).error = "ConfigParse"
            /\ got.config = None
            /\ \E t \in UnknownTokens(file) :
                 /\ Unwrap(got.error).role = t[1]
                 /\ Unwrap(got.error).category = TokenName(file.roles[t[1]][t[2]][t[3]])
       ELSE /\ got.result = "Ok"
            /\ \A r \in DOMAIN file.roles, l \in PathLists :
                 Unwrap(got.config).roles[r][l] = ExpectedList(file, file.roles[r][l])

\* A user category named like a built-in one, next to a pattern that is
\* no token.
C30_Witness ==
  /\ app.stage = "loaded"
  /\ DOMAIN app.file.categories = {"source"}
  /\ DOMAIN app.file.roles = {"coder"}
  /\ app.file.roles["coder"].allow_write = <<"{{source}}", "custom-dir/**">>
  /\ Unwrap(app.loaded).result = "Ok"
  /\ Unwrap(Unwrap(app.loaded).config).roles["coder"].allow_write =
       <<"app/**", "services/**", "custom-dir/**">>

\* An unknown category in the second role of a file.
RolesUnknownRejected ==
  /\ app.stage = "loaded"
  /\ DOMAIN app.file.roles = {"coder", "bad"}
  /\ app.file.roles["bad"].allow_write = <<"{{nonexistent_category}}">>
  /\ Unwrap(app.loaded).result = "Err"

\* ------------------------------------------------------------------------
\* C31: after every evaluation, every record appended to the JSONL store is
\* present in the exact cache, the token-Jaccard index and the embedding
\* index.
\* ------------------------------------------------------------------------
InExactCache(record) == record.key \in DOMAIN exactCache
InTokenIndex(record) == \E i \in DOMAIN tokenIndex : tokenIndex[i] = record
InEmbedIndex(record) == \E i \in DOMAIN embedIndex : embedIndex[i] = record

EmbedInsertFailed(record) ==
  \E i \in DOMAIN hist :
    /\ hist[i].resolved = record
    /\ hist[i].status = "ok"
    /\ PersistKind(record.tier) = "full"
    /\ ~hist[i].io.embed

SaveFailed(e) == PersistKind(e.resolved.tier) = "full" /\ ~e.io.save

C32_SaveFailureNotFatal ==
  \A i \in DOMAIN hist :
    SaveFailed(hist[i]) =>
      /\ hist[i].status = "ok"
      /\ hist[i].record = Some(hist[i].resolved)
      /\ i = Len(hist) => /\ InExactCache(hist[i].resolved)
                          /\ InTokenIndex(hist[i].resolved)

\* What the code does instead: the evaluation ends with the storage error.
SaveFailureEndsEvaluation ==
  \E i \in DOMAIN hist :
    /\ SaveFailed(hist[i])
    /\ hist[i].status = "StorageError"
    /\ hist[i].record = None

\* ------------------------------------------------------------------------
\* C33: a NotebookEdit whose notebook_path matches deny_write (and no
\* sensitive pattern) resolves at tier PathPolicy with deny, as a Write or
\* an Edit of that path does.
\* ------------------------------------------------------------------------
NotebookPath == relativize(Unwrap(pp.input.tool_input.notebook_path), pp.input.cwd)

NotebookDenied ==
  /\ PpDone
  /\ pp.input.tool_name = "NotebookEdit"
  /\ IsSome(pp.input.session.path_policy)
  /\ is_match(PpPolicy.deny_write, NotebookPath)
  /\ ~is_match(PpPolicy.sensitive_ask_write, NotebookPath)

C33_NotebookEditDenied ==
  NotebookDenied =>
    /\ IsSome(pp.out)
    /\ Unwrap(pp.out).tier = "PathPolicy"
    /\ Unwrap(pp.out).decision = "deny"

\* What the code does instead: the tier falls through on such a call.
NotebookEditFallsThrough == NotebookDenied /\ pp.out = None

\* ------------------------------------------------------------------------
\* C40: the path-policy tier falls through exactly when the session has no
\* compiled policy, no path is extracted, or no extracted path has a
\* verdict; otherwise it reports the most restrictive verdict of the paths
\* that have one, whatever the other paths are.
\* ------------------------------------------------------------------------
C40_FallThroughExactly ==
  PpDone =>
    /\ pp.out = None <=> \/ pp.input.session.path_policy = None
                         \/ PpPaths = <<>>
                         \/ PpVerdicts = {}
    /\ IsSome(pp.out) =>
         /\ Unwrap(pp.out).tier = "PathPolicy"
         /\ Unwrap(pp.out).decision \in PpVerdicts
         /\ \A d \in PpVerdicts :
              Restrictiveness(d) <= Restrictiveness(Unwrap(pp.out).decision)

\* `mv README.md src/main.rs`: README.md matches no glob set, src/main.rs
\* matches allow_write, and the tier resolves allow.
C40_Witness ==
  /\ PpDone
  /\ pp.input.tool_name = "Bash"
  /\ pp.input.tool_input.command = Some(CmdMv)
  /\ IsSome(pp.input.session.path_policy)
  /\ PpPaths = <<Readme, SrcMain>>
  /\ PathVerdict(PpPolicy, "Bash", Readme) = None
  /\ ~is_match(PpPolicy.allow_write, Readme)
  /\ ~is_match(PpPolicy.deny_write, Readme)
  /\ ~is_match(PpPolicy.sensitive_ask_write, Readme)
  /\ PathVerdict(PpPolicy, "Bash", SrcMain) = Some("allow")
  /\ IsSome(pp.out)
  /\ Unwrap(pp.out).tier = "PathPolicy"
  /\ Unwrap(pp.out).decision = "allow"

\* ------------------------------------------------------------------------
\* C34: after a roles file has been loaded successfully, no allow_write,
\* deny_write or allow_read entry of any role is a {{category}} token,
\* whatever the user-defined categories are.
\* ------------------------------------------------------------------------
RolesLoadedOk == app.stage = "loaded" /\ Unwrap(app.loaded).result = "Ok"

LoadedRoles == Unwrap(Unwrap(app.loaded).config).roles

IsToken(pattern) == IsSome(macro_captures(pattern))

C34_ListsFlat ==
  RolesLoadedOk =>
    \A r \in DOMAIN LoadedRoles, l \in PathLists :
      \A i \in DOMAIN LoadedRoles[r][l] : ~IsToken(LoadedRoles[r][l][i])

\* What the code does instead: a token that is an entry of a user category
\* is copied into the list of the role as it stands.
NestedTokenKept ==
  /\ RolesLoadedOk
  /\ app.file.categories = [name \in {"mine"} |-> <<"{{source}}", "mine/**">>]
  /\ app.file.roles["coder"].allow_read = <<"{{mine}}">>
  /\ LoadedRoles["coder"].allow_read = <<"{{source}}", "mine/**">>

\* ------------------------------------------------------------------------
\* C36: after wait_for_response(X) has returned a response, the queue file
\* holds neither a pending entry nor a response for X, whether the response
\* came through the file or from respond on the same DecisionQueue.
\* ------------------------------------------------------------------------
WaitReturnedResponse(p) ==
  procs[p].pc = "returned" /\ procs[p].result.status = "ok"

C36_NothingLeftInFile ==
  \A p \in QueueProcs :
    WaitReturnedResponse(p) =>
      /\ procs[p].id \notin DOMAIN qfPending
      /\ procs[p].id \notin DOMAIN qfResponses

\* What the code does instead: the response respond wrote to the file
\* stays there when wait_for_response takes it from the completed map.
ResponseLeftInFile ==
  /\ WaitReturnedResponse("test")
  /\ procs["test"].id \in DOMAIN qfResponses
  /\ procs["test"].id \notin DOMAIN procs["test"].completed

\* ------------------------------------------------------------------------
\* C35: load_queue_file returns the empty state when the queue file is
\* missing, unreadable or not parseable as a complete queue state, and
\* exactly the stored state otherwise; it never returns a part of a state.
\* ------------------------------------------------------------------------
QueueFileLoaded == app.stage = "loaded"

CompleteState(file) ==
  /\ file.kind = "text"
  /\ ~file.text.cut
  /\ IsSome(file.text.pending)
  /\ IsSome(file.text.responses)

C35_EmptyOrStored ==
  QueueFileLoaded =>
    LET got == Unwrap(app.loaded)
    IN IF CompleteState(app.file)
       THEN /\ got.pending = Unwrap(app.file.text.pending)
            /\ got.responses = Unwrap(app.file.text.responses)
       ELSE /\ got.pending = EmptyMap
            /\ got.responses = EmptyMap

\* A whole text that lists a pending entry but has no "responses" member
\* reads as the empty state.
C35_Witness ==
  /\ QueueFileLoaded
  /\ app.file.kind = "text"
  /\ ~app.file.text.cut
  /\ IsSome(app.file.text.pending)
  /\ DOMAIN Unwrap(app.file.text.pending) = {QueueId("hook")}
  /\ app.file.text.responses = None
  /\ Unwrap(app.loaded) = QueueFileStateDefault

\* A complete state with a pending entry and a response is read as stored.
QueueFileReadAsStored ==
  /\ QueueFileLoaded
  /\ CompleteState(app.file)
  /\ DOMAIN Unwrap(app.loaded).pending = {QueueId("hook")}
  /\ DOMAIN Unwrap(app.loaded).responses = {QueueId("test")}

\* ------------------------------------------------------------------------
\* C37: an evaluation that ends with HumanTimeout persists nothing: the
\* store, the exact cache, the token-Jaccard index and the embedding index
\* are the same after it as before it, so a later identical call runs the
\* whole cascade again.
\* ------------------------------------------------------------------------
\* A step of an evaluation that reaches the human tier and is not answered:
\* its start up to the wait, a sleep, or its end with HumanTimeout.
C37_TimeoutStep ==
  \/ pc = "idle" /\ pc' = "waiting"
  \/ pc = "waiting" /\ pc' = "waiting"
  \/ /\ pc = "waiting" /\ pc' = "idle"
     /\ hist'[Len(hist')].status = "HumanTimeout"

C37_Step ==
  C37_TimeoutStep => UNCHANGED <<store, exactCache, tokenIndex, embedIndex>>

\* The tiers before the human tier, which the next identical call consults
\* again: nothing answers it from a cache or an index.
BeforeHuman == SubSeq(ExpectedOrder, 1, Len(ExpectedOrder) - 1)

ConsultedAfter(i) ==
  IF i + 1 \in DOMAIN hist THEN hist[i + 1].consulted ELSE cur.consulted

C37_RunsAgain ==
  \A i \in DOMAIN hist :
    (/\ hist[i].status = "HumanTimeout"
     /\ \/ i + 1 \in DOMAIN hist /\ hist[i + 1].call = hist[i].call
        \/ i = Len(hist) /\ cur.call = Some(hist[i].call)) =>
      /\ Len(ConsultedAfter(i)) >= Len(BeforeHuman)
      /\ SubSeq(ConsultedAfter(i), 1, Len(BeforeHuman)) = BeforeHuman

C37_TimeoutPersistsNothing == [](C37_RunsAgain) /\ [][C37_Step]_vars

\* A call timed out, the same call was made again, reached the human tier
\* again and timed out again, and the store and the indices are still
\* those of the start.
C37_Witness ==
  /\ Len(hist) = 2
  /\ hist[1].status = "HumanTimeout"
  /\ hist[2].status = "HumanTimeout"
  /\ hist[2].call = hist[1].call
  /\ hist[2].consulted = ExpectedOrder
  /\ store = <<>>
  /\ exactCache = EmptyMap
  /\ tokenIndex = <<>>
  /\ embedIndex = <<>>

\* ------------------------------------------------------------------------
\* C38: wait_for_response always terminates: for every timeout (0
\* included) and whatever other processes do it returns a response or
\* HumanTimeout, after at least one poll and no later than the first poll
\* at which the deadline has passed; a response that is present in a poll
\* is returned even if the deadline has passed.
\* ------------------------------------------------------------------------
Waiter == procs["hook"]

WaitReturned == Waiter.pc = "returned"

\* It returned a response or HumanTimeout, and polled at least once.
C38_Returned ==
  WaitReturned =>
    /\ Waiter.polls >= 1
    /\ \/ Waiter.result.status = "ok" /\ IsSome(Waiter.result.response)
       \/ Waiter.result.status = "HumanTimeout" /\ Waiter.result.response = None

\* A poll begins only while the deadline had not passed at the poll before.
C38_NoPollAfterDeadline ==
  (Waiter.pc = "w_poll") => Waiter.elapsed - 1 < Waiter.timeout

\* One poll: a response in the completed map or in the file as loaded is
\* what the wait returns, deadline passed or not; without one, a passed
\* deadline ends the wait with HumanTimeout.
C38_Step ==
  /\ (Waiter.pc \in {"enqueued", "w_poll"} /\ Waiter.id \in DOMAIN Waiter.completed
      /\ procs'["hook"].polls = Waiter.polls + 1) =>
       /\ procs'["hook"].pc = "returned"
       /\ procs'["hook"].result = WaitResult("ok", Some(Waiter.completed[Waiter.id]))
  /\ (Waiter.pc = "w_check" /\ procs'["hook"].pc # "w_check") =>
       IF Waiter.id \in DOMAIN Unwrap(Waiter.snap).responses
       THEN /\ procs'["hook"].pc = "returned"
            /\ procs'["hook"].result =
                 WaitResult("ok", Some(Unwrap(Waiter.snap).responses[Waiter.id]))
       ELSE IF Waiter.elapsed >= Waiter.timeout
       THEN procs'["hook"].pc = "t_save"
       ELSE procs'["hook"].pc = "w_poll"
  /\ (Waiter.pc = "t_save" /\ procs'["hook"].pc # "t_save") =>
       /\ procs'["hook"].pc = "returned"
       /\ procs'["hook"].result = WaitResult("HumanTimeout", None)

C38_WaitTerminates ==
  /\ [](C38_Returned /\ C38_NoPollAfterDeadline)
  /\ [][C38_Step]_vars
  /\ <>WaitReturned

\* With timeout 0 the response another process wrote before the first poll
\* is returned by that poll.
C38_Witness ==
  /\ WaitReturned
  /\ Waiter.timeout = 0
  /\ Waiter.polls = 1
  /\ Waiter.elapsed = 0
  /\ Waiter.result.status = "ok"

\* With timeout 0 and no response the first poll ends with HumanTimeout.
WaitZeroTimesOut ==
  /\ WaitReturned
  /\ Waiter.timeout = 0
  /\ Waiter.polls = 1
  /\ Waiter.result.status = "HumanTimeout"

\* ------------------------------------------------------------------------
\* C39: the ids the human tier generates are unique among simultaneously
\* pending decisions: two hook processes that reach the human tier
\* concurrently never enqueue under the same id, so neither consumes the
\* other's response.
\* ------------------------------------------------------------------------
\* The process has enqueued its decision and its wait has not returned.
HasPending(p) == procs[p].pc \in {"enqueued", "w_poll", "w_check", "t_save"}

C39_IdsUnique ==
  (HasPending("hook") /\ HasPending("hook2")) => procs["hook"].id # procs["hook2"].id

\* What the code allows instead: both processes built the same id, the
\* operator answered once, the second process took the answer and the
\* first one timed out.
ResponseConsumedByOther ==
  /\ procs["hook"].id = procs["hook2"].id
  /\ procs["op"].pc = "responded"
  /\ procs["hook2"].result.status = "ok"
  /\ procs["hook"].result.status = "HumanTimeout"

\* Two calls of different tools in the same millisecond get different ids.
IdsDifferByTool ==
  /\ HasPending("hook") /\ HasPending("hook2")
  /\ procs["hook"].id[3] = procs["hook2"].id[3]
  /\ procs["hook"].id # procs["hook2"].id

====
